---- MODULE Spec2Model ----
(***************************************************************************)
(* Model of the CCAgent repair loop (crete.framework.agent.services.cc),   *)
(* the CCCoder generator wrapper (crete.framework.coder.services.cc) and   *)
(* the outcome selection they rely on.                                     *)
(*                                                                         *)
(* Text is modelled as a sequence of characters; bytes as a sequence of    *)
(* integers (UTF-8 code units).                                            *)
(***************************************************************************)
EXTENDS Integers, Sequences, FiniteSets, TLC

VARIABLES
    max_iterations,   \* CCAgent._max_iterations
    pc,               \* position inside CCAgent.act / CCCoder.run / the Task
    i,                \* number of contexts handed out by the for loop
    failed_patches,   \* act: failed_patches (str)
    actions,          \* act: actions (list[Action])
    prompt,           \* act: prompt of the current attempt (str)
    diff,             \* act: diff of the current attempt (bytes | None)
    action,           \* act: action of the current attempt
    worktree,         \* uncommitted edits of the source checkout (git diff text)
    coder_diff,       \* _run_agent_async: diff (str | None)
    debug_files,      \* iter_<k>/prompt.txt and iter_<k>/diff.txt, in order
    gen_calls,        \* number of query(...) invocations
    eval_calls,       \* number of evaluator.evaluate(...) invocations
    error_logs,       \* logger.error(...) records of the coder: the attempt of each
    exception,        \* the call of act that raised ("none" when none did)
    yielded,          \* the actions act has yielded
    task_outcome,     \* the outcomes the Task has reported
    spent_usd,        \* what the Task's generation calls have cost so far
    sel_in,           \* argument of a stand-alone choose_best_action call
    sel_out,          \* its result
    max_cost,         \* LlmCostTracker._max_cost
    block_llm,        \* LlmCostTracker._block_llm
    total_usage,      \* LlmCostTracker._total_usage
    current_usage,    \* LlmCostTracker._current_usage
    n_calls,          \* calls of _tracking_completion made so far
    underlying_calls, \* calls of _original_completion made so far
    recorded,         \* the usages _update_usage has added, in order
    last_call,        \* what the most recent _tracking_completion call did
    errors,           \* the exceptions callers of the tracker have seen
    u_pc,             \* position of the LlmUsage exercise
    u_a,              \* an LlmUsage object a
    u_b,              \* an LlmUsage object b
    u_c,              \* an LlmUsage object c
    u_in,             \* the values a, b and c were constructed with
    u_out,            \* the values the merges returned
    keep_best_result,     \* run: --keep-best-result
    early_exit_on_sound,  \* run: --early-exit-on-sound
    no_cache,             \* run: --no-cache
    b_pc,                 \* position inside run (afc_benchmark)
    sweep,                \* number of run invocations started
    cell,                 \* index of the detection file being handled
    stored,               \* reports/<app>/<stem>, per detection file
    tmp,                  \* reports/<app>/<stem>_tmp, per detection file
    output_directory,     \* run: which of the two the cell's run writes to
    prev_result,          \* run: prev_result
    result,               \* run: result
    run_result,           \* the result the cell's own run produced
    benchmark_results,    \* run: benchmark_results
    report,               \* reports/<app>.json
    child_runs,           \* number of child jobs started
    task_cache,           \* <cache-directory>/<task_id>
    child_job,            \* what the cell's child job did
    run_error,            \* _run_single_benchmark: the exception it caught
    message,              \* the message of the result the run produced
    task_directory,       \* the task's source checkout and build output
    p_pc,                 \* position inside the caller of a started command
    alive,                \* the processes that are running
    ppid,                 \* the parent of each process (0: re-parented)
    children,             \* kill_process_tree: children still to be killed
    n_spawned,            \* number of processes started so far
    completion,           \* litellm.completion: the function installed
    _original_completion, \* each tracker's _original_completion
    open_starts,          \* each tracker's start() calls not yet stopped
    n_starts,             \* number of start() calls made
    hook_call,            \* where the last litellm.completion call ended
    d_pc,                 \* position inside one cell's run of the child job
    d_dir,                \* the output directory and its _crete_return.json
    d_run,                \* number of runs started on the output directory
    d_stale,              \* the directory held a document before this run
    d_child,              \* how the child job of this run ended
    d_read,               \* the document _run_crete_app parsed
    d_result,             \* the variant written to result.json
    sb_pc,                \* a single _run_single_benchmark call: its position
    sb_in,                \* what the call is given and meets
    sb_out,               \* the BenchmarkResult it returned
    cv_pc,                \* a single change_variant call: its position
    cv_in,                \* the file and the arguments of the call
    cv_out,               \* what the call returned and the file afterwards
    pl_pc,                \* position inside init_environment_pool
    pl_args,              \* the arguments of init_environment_pool
    pl_pool,              \* the project and challenge mode of the pool
    pl_next,              \* index of the next environment type to create
    pool_cache,           \* the environments kept under the cache directory
    builds,               \* the keys the build step has run for, in order
    handles,              \* the environments handed out, in order
    t_pc,                 \* position of each Task on the shared checkout
    shared_worktree,      \* whose uncommitted edits the shared checkout holds
    t_diff                \* the diff each Task captured

loop_vars == <<max_iterations, pc, i, failed_patches, actions, prompt, diff,
               action, worktree, coder_diff, debug_files, gen_calls,
               eval_calls, error_logs, exception, yielded, task_outcome,
               spent_usd>>
sel_vars == <<sel_in, sel_out>>
trk_vars == <<max_cost, block_llm, total_usage, current_usage, n_calls,
              underlying_calls, recorded, last_call, errors>>
usage_vars == <<u_pc, u_a, u_b, u_c, u_in, u_out>>
bench_vars == <<keep_best_result, early_exit_on_sound, no_cache, b_pc, sweep,
                cell, stored, tmp, output_directory, prev_result, result,
                run_result, benchmark_results, report, child_runs, task_cache,
                child_job, run_error, message, task_directory>>
proc_vars == <<p_pc, alive, ppid, children, n_spawned>>
pool_vars == <<pl_pc, pl_args, pl_pool, pl_next, pool_cache, builds, handles>>
conc_vars == <<t_pc, shared_worktree, t_diff>>
hook_vars == <<completion, _original_completion, open_starts, n_starts,
               hook_call>>
doc_vars == <<d_pc, d_dir, d_run, d_stale, d_child, d_read, d_result>>
single_vars == <<sb_pc, sb_in, sb_out>>
change_vars == <<cv_pc, cv_in, cv_out>>
unit_vars == <<hook_vars, doc_vars, single_vars, change_vars>>
ext_vars == <<proc_vars, pool_vars, conc_vars, unit_vars>>
vars == <<loop_vars, sel_vars, trk_vars, usage_vars, bench_vars, ext_vars>>

-----------------------------------------------------------------------------
(* Bounds *)

MaxIterations == 3      \* largest configured max_iterations explored
MaxSelLen == 3          \* longest sequence handed to choose_best_action alone
MaxCalls == 3           \* calls made through one LlmCostTracker
MaxTokens == 1          \* largest token count of a constructed LlmUsage
MaxSweeps == 2          \* invocations of the benchmark run over the same cells
MaxProcs == 4           \* processes of one started command, the command included
MaxPoolInits == 2       \* calls of init_environment_pool on one cache directory
MaxStarts == 3          \* start() calls made on the trackers of one process
MaxRuns == 2            \* runs of a child job on one output directory
MaxRows == 3            \* result rows of a file given to change_variant

-----------------------------------------------------------------------------
(* Text, bytes and None *)

\* Optional values: Python's None, and a present value v.
None == [is_none |-> TRUE, value |-> <<>>]

Some(v) == [is_none |-> FALSE, value |-> v]

Whitespace == {" "}

\* The edits the external generator may leave in the checkout (git diff text).
Edits == {<<>>, <<" ">>, <<"x">>, <<" ", "y">>}

CodePoint == ("x" :> 120) @@ ("y" :> 121) @@ (" " :> 32)

\* str.encode(): UTF-8, one byte per ASCII character.
Encode(s) == [k \in 1..Len(s) |-> CodePoint[s[k]]]

\* bytes.decode(errors="replace"): undecodable bytes become U+FFFD.
Decode(b) ==
    [k \in 1..Len(b) |->
        IF \E c \in DOMAIN CodePoint : CodePoint[c] = b[k]
        THEN CHOOSE c \in DOMAIN CodePoint : CodePoint[c] = b[k]
        ELSE "U+FFFD"]

WhitespaceBytes == {CodePoint[c] : c \in Whitespace}

RECURSIVE lstrip(_)
lstrip(b) ==
    IF b # <<>> /\ Head(b) \in WhitespaceBytes THEN lstrip(Tail(b)) ELSE b

RECURSIVE rstrip(_)
rstrip(b) ==
    IF b # <<>> /\ b[Len(b)] \in WhitespaceBytes
    THEN rstrip(SubSeq(b, 1, Len(b) - 1))
    ELSE b

\* bytes.strip()
strip(b) == rstrip(lstrip(b))

-----------------------------------------------------------------------------
(* Prompt templates *)

\* FAILED_PATCH_TEMPLATE.format(failed_patch=p); inspect.cleandoc drops the
\* trailing blank lines of the literal.
FAILED_PATCH_TEMPLATE(p) == <<"[fence diff]">> \o p \o <<"[fence]">>

\* CC_USER_PROMPT_TEMPLATE.format(bug_class=..., insights=...)
CC_USER_PROMPT_TEMPLATE ==
    <<"Create a patch to fix a ", "{bug_class}", " bug ... ", "{insights}">>

\* CC_USER_PROMPT_TEMPLATE_WITH_FEEDBACK.format(..., failed_patch=fp)
CC_USER_PROMPT_TEMPLATE_WITH_FEEDBACK(fp) ==
    <<"I tried to fix a ", "{bug_class}", " vulnerability ... patches: ">>
    \o fp
    \o <<" Explain why the patches failed ... ", "{insights}">>

make_prompt(fp) ==
    IF fp = <<>>
    THEN CC_USER_PROMPT_TEMPLATE
    ELSE CC_USER_PROMPT_TEMPLATE_WITH_FEEDBACK(fp)

-----------------------------------------------------------------------------
(* Outcome model *)

\* The variants an evaluator may classify a diff into.
EvaluatorVariants ==
    {"sound", "vulnerable", "compilable", "uncompilable", "wrong",
     "internal_tests_failure", "unknown_error"}

\* The severity order: Sound > Compilable > Uncompilable > Vulnerable >
\* Wrong > NoPatch.  Variants outside its domain do not enter the ordering.
Rank ==
    ("sound" :> 5) @@ ("compilable" :> 4) @@ ("uncompilable" :> 3) @@
    ("vulnerable" :> 2) @@ ("wrong" :> 1) @@ ("no_patch" :> 0)

Ordered == DOMAIN Rank

NoPatchAction == [variant |-> "no_patch", diff |-> None]

NoAction == [variant |-> "none", diff |-> None]

RECURSIVE BestOf(_, _)
\* Fold keeping the first element of greatest rank (best so far: b).
BestOf(b, s) ==
    IF s = <<>> THEN b
    ELSE BestOf(IF Rank[Head(s).variant] > Rank[b.variant] THEN Head(s) ELSE b,
                Tail(s))

WorstOf_mutant(as) ==
    LET ord == SelectSeq(as, LAMBDA a : a.variant \in Ordered)
    IN  IF ord = <<>> THEN as[1]
        ELSE CHOOSE a \in {ord[k] : k \in 1..Len(ord)} :
                 \A k \in 1..Len(ord) : Rank[a.variant] <= Rank[ord[k].variant]

\* choose_best_action(actions), for a non-empty list: the best of the members
\* that enter the ordering; a list with no such member reports its failure.
choose_best_action(as) ==
    LET ord == SelectSeq(as, LAMBDA a : a.variant \in Ordered)
    IN  IF ord = <<>> THEN as[1] ELSE BestOf(Head(ord), Tail(ord))

-----------------------------------------------------------------------------
(* CCAgent.act, CCCoder.run and the Task around them *)

\* The isinstance test of act: the outcomes after which the loop goes on.
Retryable_without_wrong_mutant == {"vulnerable", "compilable", "uncompilable"}

Retryable_with_sound_mutant ==
    {"vulnerable", "compilable", "uncompilable", "wrong", "sound"}

Retryable_with_no_patch_mutant ==
    {"vulnerable", "compilable", "uncompilable", "wrong", "no_patch"}

Retryable_with_internal_tests_failure_mutant ==
    {"vulnerable", "compilable", "uncompilable", "wrong",
     "internal_tests_failure"}

Retryable == {"vulnerable", "compilable", "uncompilable", "wrong"}

\* range(max_iterations) still has a value after n were handed out.
HasNext_off_by_one_mutant(n, max) == n <= max

HasNext(n, max) == n < max

\* `diff is None or len(diff.strip()) == 0`
IsNoPatchDiff_no_strip_mutant(d) == d.is_none \/ Len(d.value) = 0

IsNoPatchDiff(d) == d.is_none \/ Len(strip(d.value)) = 0

\* failed_patches += FAILED_PATCH_TEMPLATE.format(failed_patch=diff.decode(...))
AppendFailedPatch_overwrite_mutant(fp, d) ==
    FAILED_PATCH_TEMPLATE(IF d.is_none THEN <<>> ELSE Decode(d.value))

AppendFailedPatch(fp, d) ==
    fp \o FAILED_PATCH_TEMPLATE(IF d.is_none THEN <<>> ELSE Decode(d.value))

\* The debug files of one attempt: prompt.txt and diff.txt.
DebugFiles(p, d) ==
    [prompt |-> p, diff |-> IF d.is_none THEN <<>> ELSE Decode(d.value)]

\* The argument act hands to choose_best_action.
LastOnly_mutant(as) == IF as = <<>> THEN <<>> ELSE <<as[Len(as)]>>

BestActionInput(as) == as

\* What act yields once the loop is over (as is not empty).
YieldEach_mutant(as) == as

YieldedBy(as) == <<choose_best_action(BestActionInput(as))>>

\* CCAgent.__init__: the default of max_budget_usd.
max_budget_usd == 5

\* What one query(...) can cost under ClaudeAgentOptions(max_budget_usd).
CallCosts == {0, max_budget_usd}

InitLoop(maxes) ==
    /\ max_iterations \in maxes
    /\ pc = "loop"
    /\ i = 0
    /\ failed_patches = <<>>
    /\ actions = <<>>
    /\ prompt = <<>>
    /\ diff = None
    /\ action = NoAction
    /\ worktree \in Edits
    /\ coder_diff = None
    /\ debug_files = <<>>
    /\ gen_calls = 0
    /\ eval_calls = 0
    /\ error_logs = <<>>
    /\ exception = "none"
    /\ yielded = <<>>
    /\ task_outcome = <<>>
    /\ spent_usd = 0

InitSel ==
    /\ sel_in = <<>>
    /\ sel_out = NoAction

\* LlmUsage(): every field at its default.
ZeroUsage == [total_cost |-> 0, prompt_tokens |-> 0, completion_tokens |-> 0]

NoCall == [status |-> "none", response |-> "none", delta |-> ZeroUsage]

\* No LlmCostTracker is in use.
IdleTracker ==
    /\ max_cost = 0
    /\ block_llm = FALSE
    /\ total_usage = ZeroUsage
    /\ current_usage = ZeroUsage
    /\ n_calls = 0
    /\ underlying_calls = 0
    /\ recorded = <<>>
    /\ last_call = NoCall
    /\ errors = {}

\* No LlmUsage exercise is running.
IdleUsage ==
    /\ u_pc = "idle"
    /\ u_a = ZeroUsage
    /\ u_b = ZeroUsage
    /\ u_c = ZeroUsage
    /\ u_in = <<>>
    /\ u_out = <<>>

\* The detection files given to run, in order (their stems).
DetectionFiles == <<"cpv-1", "cpv-2">>

\* No BenchmarkResult (Python's None, or no result.json that loads).
NoResult == [cpv_name |-> "none", variant |-> "none", sweep |-> 0]

\* A directory that does not exist, and a fresh empty one.
AbsentDirectory == [exists |-> FALSE, result |-> NoResult]

EmptyDirectory == [exists |-> TRUE, result |-> NoResult]

\* No child job has run.
NoJob == [timed_out |-> FALSE, returncode |-> 0, document |-> "none"]

\* No benchmark is run.
IdleBench ==
    /\ keep_best_result = FALSE
    /\ early_exit_on_sound = FALSE
    /\ no_cache = FALSE
    /\ b_pc = "off"
    /\ sweep = 0
    /\ cell = 0
    /\ stored = [d \in DOMAIN DetectionFiles |-> AbsentDirectory]
    /\ tmp = [d \in DOMAIN DetectionFiles |-> AbsentDirectory]
    /\ output_directory = "stem"
    /\ prev_result = NoResult
    /\ result = NoResult
    /\ run_result = NoResult
    /\ benchmark_results = <<>>
    /\ report = None
    /\ child_runs = 0
    /\ task_cache = "absent"
    /\ child_job = NoJob
    /\ run_error = "none"
    /\ message = ""
    /\ task_directory = "clean"

\* The process ids of a started command and its descendants; 1 is the
\* command itself.
Pids == 1..MaxProcs

\* No command is started.
IdleProc ==
    /\ p_pc = "off"
    /\ alive = {}
    /\ ppid = [p \in Pids |-> 0]
    /\ children = <<>>
    /\ n_spawned = 0

\* No challenge mode (no pool is being initialised).
NoMode == [type |-> "none", base_ref |-> "none", delta_ref |-> "none"]

\* No pool is constructed.
NoPool == [project_name |-> "none", mode |-> NoMode]

\* init_environment_pool is not called.
NoArgs == [project_name |-> "none", challenge_mode |-> NoMode]

\* No environment pool is initialised.
IdlePool ==
    /\ pl_pc = "off"
    /\ pl_args = NoArgs
    /\ pl_pool = NoPool
    /\ pl_next = 0
    /\ pool_cache = {}
    /\ builds = <<>>
    /\ handles = <<>>

\* The Tasks that share one checkout.
Tasks == {1, 2}

\* No diff captured (None).
NoCapture == [is_none |-> TRUE, edits |-> {}]

\* No Task works on a shared checkout.
IdleConc ==
    /\ t_pc = [t \in Tasks |-> "off"]
    /\ shared_worktree = {}
    /\ t_diff = [t \in Tasks |-> NoCapture]

\* The trackers of one process.
Trackers == {"tracker_a", "tracker_b"}

\* No tracker was started: litellm.completion is the function of litellm.
IdleHooks ==
    /\ completion = "litellm"
    /\ _original_completion = [t \in Trackers |-> "unset"]
    /\ open_starts = [t \in Trackers |-> 0]
    /\ n_starts = 0
    /\ hook_call = "none"

\* Nothing was read from _crete_return.json.
NothingRead == [document |-> "none", written_in |-> 0]

\* No output directory is in use.
IdleDocument ==
    /\ d_pc = "off"
    /\ d_dir = [exists |-> FALSE, document |-> "missing", written_in |-> 0]
    /\ d_run = 0
    /\ d_stale = FALSE
    /\ d_child = "none"
    /\ d_read = NothingRead
    /\ d_result = "none"

\* No single benchmark call is made.
NoCallInput ==
    [detection_file |-> "none", job |-> NoJob, llm_usage |-> 0,
     full |-> "no_file", recheck |-> "sound"]

NoBenchmarkResult ==
    [variant |-> "none", error |-> "none", message |-> "", llm_cost |-> 0]

IdleSingle ==
    /\ sb_pc = "off"
    /\ sb_in = NoCallInput
    /\ sb_out = NoBenchmarkResult

\* No file is given to change_variant.
NoFile ==
    [kind |-> "none", has_results |-> FALSE, results |-> <<>>,
     has_statistics |-> FALSE, statistics |-> <<>>, writable |-> FALSE]

IdleChange ==
    /\ cv_pc = "off"
    /\ cv_in = [file |-> NoFile, cpv_name |-> "none", new_variant |-> "none"]
    /\ cv_out = [returned |-> "none", file |-> NoFile]

IdleUnits == IdleHooks /\ IdleDocument /\ IdleSingle /\ IdleChange

IdleExt == IdleProc /\ IdlePool /\ IdleConc /\ IdleUnits

Init ==
    InitLoop(1..MaxIterations) /\ InitSel /\ IdleTracker /\ IdleUsage
        /\ IdleBench
        /\ IdleExt

\* for context in _iterate_with_output_directory(...): the next context, or
\* the end of the loop.
IterNext ==
    /\ pc = "loop"
    /\ IF HasNext(i, max_iterations)
       THEN /\ i' = i + 1
            /\ pc' = "make_prompt"
       ELSE /\ i' = i
            /\ pc' = "choose"
    /\ UNCHANGED <<max_iterations, failed_patches, actions, prompt, diff,
                   action, worktree, coder_diff, debug_files, gen_calls,
                   eval_calls, error_logs, exception, yielded, task_outcome,
                   spent_usd>>

\* prompt = make_prompt(context, detection, failed_patches)
MakePrompt ==
    /\ pc = "make_prompt"
    /\ prompt' = make_prompt(failed_patches)
    /\ pc' = "run"
    /\ UNCHANGED <<max_iterations, i, failed_patches, actions, diff, action,
                   worktree, coder_diff, debug_files, gen_calls, eval_calls,
                   error_logs, exception, yielded, task_outcome,
                   spent_usd>>

\* CCCoder.run: git restore --source=HEAD :/ before the agent runs.
RestoreBefore ==
    /\ pc = "run"
    /\ worktree' = <<>>
    /\ pc' = "query"
    /\ UNCHANGED <<max_iterations, i, failed_patches, actions, prompt, diff,
                   action, coder_diff, debug_files, gen_calls, eval_calls,
                   error_logs, exception, yielded, task_outcome,
                   spent_usd>>

\* _run_agent_async: query(...) runs to its end, leaving edits in the checkout.
Query ==
    /\ pc = "query"
    /\ \E e \in Edits : worktree' = e
    /\ gen_calls' = gen_calls + 1
    /\ \E cost \in CallCosts : spent_usd' = spent_usd + cost
    /\ pc' = "git_diff"
    /\ UNCHANGED <<max_iterations, i, failed_patches, actions, prompt, diff,
                   action, coder_diff, debug_files, eval_calls, error_logs,
                   exception, yielded, task_outcome>>

\* _run_agent_async: query(...) raises; the except clause logs the error and
\* returns None, and run returns None.
QueryRaises ==
    /\ pc = "query"
    /\ \E e \in Edits : worktree' = e
    /\ gen_calls' = gen_calls + 1
    /\ \E cost \in CallCosts : spent_usd' = spent_usd + cost
    /\ error_logs' = Append(error_logs, i)
    /\ coder_diff' = None
    /\ diff' = None
    /\ pc' = "classify"
    /\ UNCHANGED <<max_iterations, i, failed_patches, actions, prompt, action,
                   debug_files, eval_calls, exception, yielded, task_outcome>>

\* _get_git_diff: the text of `git diff`, or None when the command fails.
GetGitDiff ==
    /\ pc = "git_diff"
    /\ \/ coder_diff' = Some(worktree)
       \/ coder_diff' = None
    /\ pc' = "restore_after"
    /\ UNCHANGED <<max_iterations, i, failed_patches, actions, prompt, diff,
                   action, worktree, debug_files, gen_calls, eval_calls,
                   error_logs, exception, yielded, task_outcome,
                   spent_usd>>

\* _run_agent_async: git restore after the diff was taken; run returns
\* diff.encode(), or None.
RestoreAfter ==
    /\ pc = "restore_after"
    /\ worktree' = <<>>
    /\ diff' = IF coder_diff.is_none THEN None
               ELSE Some(Encode(coder_diff.value))
    /\ pc' = "classify"
    /\ UNCHANGED <<max_iterations, i, failed_patches, actions, prompt, action,
                   coder_diff, debug_files, gen_calls, eval_calls, error_logs,
                   exception, yielded, task_outcome,
                   spent_usd>>

\* act: no diff, or a blank one, is a NoPatchAction; the evaluator is not asked.
ClassifyNoPatch ==
    /\ pc = "classify"
    /\ IsNoPatchDiff(diff)
    /\ action' = NoPatchAction
    /\ pc' = "record"
    /\ UNCHANGED <<max_iterations, i, failed_patches, actions, prompt, diff,
                   worktree, coder_diff, debug_files, gen_calls, eval_calls,
                   error_logs, exception, yielded, task_outcome,
                   spent_usd>>

\* act: action = context["evaluator"].evaluate(context, diff, detection)
Evaluate ==
    /\ pc = "classify"
    /\ ~IsNoPatchDiff(diff)
    /\ eval_calls' = eval_calls + 1
    /\ \E v \in EvaluatorVariants :
           action' = [variant |-> v,
                      diff |-> IF v = "unknown_error" THEN None ELSE diff]
    /\ pc' = "record"
    /\ UNCHANGED <<max_iterations, i, failed_patches, actions, prompt, diff,
                   worktree, coder_diff, debug_files, gen_calls, error_logs,
                   exception, yielded, task_outcome,
                   spent_usd>>

\* act: evaluate raises; act has no handler, the exception leaves it.
EvaluateRaises_swallowed_mutant ==
    /\ pc = "classify"
    /\ ~IsNoPatchDiff(diff)
    /\ eval_calls' = eval_calls + 1
    /\ exception' = "evaluate"
    /\ action' = [variant |-> "wrong", diff |-> diff]
    /\ pc' = "record"
    /\ UNCHANGED <<max_iterations, i, failed_patches, actions, prompt, diff,
                   worktree, coder_diff, debug_files, gen_calls, error_logs,
                   yielded, task_outcome,
                   spent_usd>>

EvaluateRaises ==
    /\ pc = "classify"
    /\ ~IsNoPatchDiff(diff)
    /\ eval_calls' = eval_calls + 1
    /\ exception' = "evaluate"
    /\ pc' = "raised"
    /\ UNCHANGED <<max_iterations, i, failed_patches, actions, prompt, diff,
                   action, worktree, coder_diff, debug_files, gen_calls,
                   error_logs, yielded, task_outcome,
                   spent_usd>>

\* act: store the debug files, append the action, then go on or break.
Record ==
    /\ pc = "record"
    /\ debug_files' = Append(debug_files, DebugFiles(prompt, diff))
    /\ actions' = Append(actions, action)
    /\ IF action.variant \in Retryable
       THEN /\ failed_patches' = AppendFailedPatch(failed_patches, diff)
            /\ pc' = "loop"
       ELSE /\ failed_patches' = failed_patches
            /\ pc' = "choose"
    /\ UNCHANGED <<max_iterations, i, prompt, diff, action, worktree,
                   coder_diff, gen_calls, eval_calls, error_logs, exception,
                   yielded, task_outcome,
                   spent_usd>>

\* act: yield choose_best_action(actions); an empty list is an error.
Choose ==
    /\ pc = "choose"
    /\ IF BestActionInput(actions) = <<>>
       THEN /\ exception' = "choose_best_action"
            /\ yielded' = yielded
            /\ pc' = "raised"
       ELSE /\ exception' = exception
            /\ yielded' = yielded \o YieldedBy(actions)
            /\ pc' = "yielded"
    /\ UNCHANGED <<max_iterations, i, failed_patches, actions, prompt, diff,
                   action, worktree, coder_diff, debug_files, gen_calls,
                   eval_calls, error_logs, task_outcome,
                   spent_usd>>

\* The Task reports what act yielded.
TaskYields ==
    /\ pc = "yielded"
    /\ task_outcome' = task_outcome \o yielded
    /\ pc' = "done"
    /\ UNCHANGED <<max_iterations, i, failed_patches, actions, prompt, diff,
                   action, worktree, coder_diff, debug_files, gen_calls,
                   eval_calls, error_logs, exception, yielded,
                   spent_usd>>

\* An exception that left act is reported as UnknownError for the whole Task.
TaskFails ==
    /\ pc = "raised"
    /\ task_outcome' =
           Append(task_outcome, [variant |-> "unknown_error", diff |-> None])
    /\ pc' = "done"
    /\ UNCHANGED <<max_iterations, i, failed_patches, actions, prompt, diff,
                   action, worktree, coder_diff, debug_files, gen_calls,
                   eval_calls, error_logs, exception, yielded,
                   spent_usd>>

Next ==
    \/ IterNext /\ UNCHANGED <<sel_vars, trk_vars, usage_vars, bench_vars, ext_vars>>
    \/ MakePrompt /\ UNCHANGED <<sel_vars, trk_vars, usage_vars, bench_vars, ext_vars>>
    \/ RestoreBefore /\ UNCHANGED <<sel_vars, trk_vars, usage_vars, bench_vars, ext_vars>>
    \/ Query /\ UNCHANGED <<sel_vars, trk_vars, usage_vars, bench_vars, ext_vars>>
    \/ QueryRaises /\ UNCHANGED <<sel_vars, trk_vars, usage_vars, bench_vars, ext_vars>>
    \/ GetGitDiff /\ UNCHANGED <<sel_vars, trk_vars, usage_vars, bench_vars, ext_vars>>
    \/ RestoreAfter /\ UNCHANGED <<sel_vars, trk_vars, usage_vars, bench_vars, ext_vars>>
    \/ ClassifyNoPatch /\ UNCHANGED <<sel_vars, trk_vars, usage_vars, bench_vars, ext_vars>>
    \/ Evaluate /\ UNCHANGED <<sel_vars, trk_vars, usage_vars, bench_vars, ext_vars>>
    \/ EvaluateRaises /\ UNCHANGED <<sel_vars, trk_vars, usage_vars, bench_vars, ext_vars>>
    \/ Record /\ UNCHANGED <<sel_vars, trk_vars, usage_vars, bench_vars, ext_vars>>
    \/ Choose /\ UNCHANGED <<sel_vars, trk_vars, usage_vars, bench_vars, ext_vars>>
    \/ TaskYields /\ UNCHANGED <<sel_vars, trk_vars, usage_vars, bench_vars, ext_vars>>
    \/ TaskFails /\ UNCHANGED <<sel_vars, trk_vars, usage_vars, bench_vars, ext_vars>>

Spec == Init /\ [][Next]_vars

-----------------------------------------------------------------------------
(* choose_best_action on its own, for every short list of ordered outcomes *)

ActionOf(v) ==
    [variant |-> v,
     diff |-> IF v = "no_patch" THEN None ELSE Some(Encode(<<"x">>))]

OrderedActions == {ActionOf(v) : v \in Ordered}

InitBest ==
    /\ max_iterations = 1
    /\ pc = "select"
    /\ i = 0
    /\ failed_patches = <<>>
    /\ actions = <<>>
    /\ prompt = <<>>
    /\ diff = None
    /\ action = NoAction
    /\ worktree = <<>>
    /\ coder_diff = None
    /\ debug_files = <<>>
    /\ gen_calls = 0
    /\ eval_calls = 0
    /\ error_logs = <<>>
    /\ exception = "none"
    /\ yielded = <<>>
    /\ task_outcome = <<>>
    /\ spent_usd = 0
    /\ \E n \in 1..MaxSelLen : sel_in \in [1..n -> OrderedActions]
    /\ sel_out = NoAction
    /\ IdleTracker
    /\ IdleUsage
    /\ IdleBench
    /\ IdleExt

SelectBest ==
    /\ pc = "select"
    /\ sel_out = NoAction
    /\ sel_out' = choose_best_action(sel_in)
    /\ UNCHANGED <<sel_in, loop_vars, trk_vars, usage_vars, bench_vars, ext_vars>>

NextBest == SelectBest

SpecBest == InitBest /\ [][NextBest]_vars

-----------------------------------------------------------------------------
(* Properties *)

Variants(as) == [k \in 1..Len(as) |-> as[k].variant]

Finished == pc = "done" /\ exception = "none"

\* C1: when act finishes a Task whose attempts all have outcomes of the
\* severity order, the one outcome reported is one of the attempts' actions
\* and is not worse than the outcome of any attempt, first to last.
C1_ReportsBestOfAll ==
    (Finished /\ \A k \in 1..Len(actions) : actions[k].variant \in Ordered)
    => /\ Len(task_outcome) = 1
       /\ \E k \in 1..Len(actions) : actions[k] = task_outcome[1]
       /\ \A k \in 1..Len(actions) :
              Rank[task_outcome[1].variant] >= Rank[actions[k].variant]

C1_Witness ==
    /\ Finished
    /\ Variants(actions) = <<"compilable", "wrong", "no_patch">>
    /\ Variants(task_outcome) = <<"compilable">>

\* C2: for every non-empty list of outcomes of the severity order,
\* choose_best_action returns a member of the list whose rank is the greatest
\* in the list, and on a one-element list it returns that element.
C2_SelectBestIsMaximum ==
    sel_out # NoAction
    => /\ \E k \in 1..Len(sel_in) : sel_in[k] = sel_out
       /\ \A k \in 1..Len(sel_in) :
              Rank[sel_out.variant] >= Rank[sel_in[k].variant]
       /\ Len(sel_in) = 1 => sel_out = sel_in[1]

C2_Witness ==
    /\ Variants(sel_in) = <<"wrong", "compilable", "no_patch">>
    /\ sel_out = ActionOf("compilable")

\* C3: after an attempt classified Vulnerable, Compilable, Uncompilable or
\* Wrong the diff text is appended to the feedback buffer; the loop then
\* starts another attempt if fewer than max_iterations were made and leaves
\* the loop otherwise; the number of attempts never exceeds max_iterations.
C3_AttemptsBounded ==
    /\ i <= max_iterations
    /\ gen_calls <= max_iterations
    /\ Len(actions) <= max_iterations

C3_RetryStep ==
    /\ (pc = "record" /\ action.variant \in Retryable)
       => /\ failed_patches' =
                 failed_patches \o <<"[fence diff]">> \o coder_diff.value
                                \o <<"[fence]">>
          /\ pc' = "loop"
    /\ (pc = "loop" /\ actions # <<>>)
       => /\ actions[Len(actions)].variant \in Retryable
          /\ Len(actions) < max_iterations => pc' = "make_prompt"
          /\ Len(actions) = max_iterations => pc' = "choose"

C3_RetryUnlessCeiling == [](C3_AttemptsBounded) /\ [][C3_RetryStep]_vars

C3_Witness ==
    /\ pc = "choose"
    /\ max_iterations = 2
    /\ Variants(actions) = <<"vulnerable", "uncompilable">>
    /\ gen_calls = 2

\* A diff that is absent, empty, or made of whitespace only.
Blank(d) == d.is_none \/ \A k \in 1..Len(d.value) : d.value[k] \in {32}

BlankText(t) == \A k \in 1..Len(t) : t[k] = " "

\* C4: an absent or blank diff makes the attempt NoPatch without a call of
\* the evaluator, and a Task all of whose diffs are blank ends after exactly
\* one attempt and reports NoPatch, whatever max_iterations >= 1 is.
C4_BlankStep ==
    (pc = "classify" /\ Blank(diff))
    => /\ action' = NoPatchAction
       /\ eval_calls' = eval_calls
       /\ pc' = "record"

C4_AlwaysBlankEnds ==
    (pc = "done" /\ debug_files # <<>>
        /\ \A k \in 1..Len(debug_files) : BlankText(debug_files[k].diff))
    => /\ Len(actions) = 1
       /\ gen_calls = 1
       /\ eval_calls = 0
       /\ task_outcome = <<NoPatchAction>>

C4_BlankDiffIsNoPatch == [](C4_AlwaysBlankEnds) /\ [][C4_BlankStep]_vars

C4_Witness ==
    /\ pc = "done"
    /\ max_iterations = 3
    /\ Len(debug_files) = 1
    /\ debug_files[1].diff = <<" ">>
    /\ eval_calls = 0
    /\ task_outcome = <<NoPatchAction>>

\* C5: a finished Task in which every attempt had a diff that was classified
\* Wrong made exactly max_iterations attempts and reports Wrong.
C5_AlwaysWrongRunsToCeiling ==
    (Finished /\ actions # <<>>
        /\ \A k \in 1..Len(actions) : actions[k].variant = "wrong")
    => /\ Len(actions) = max_iterations
       /\ gen_calls = max_iterations
       /\ eval_calls = max_iterations
       /\ Variants(task_outcome) = <<"wrong">>

C5_Witness ==
    /\ Finished
    /\ max_iterations = 3
    /\ Variants(actions) = <<"wrong", "wrong", "wrong">>
    /\ Variants(task_outcome) = <<"wrong">>

RECURSIVE Feedback(_)
\* The diffs of the first n attempts, each in its fence, in attempt order.
Feedback(n) ==
    IF n = 0 THEN <<>>
    ELSE Feedback(n - 1) \o <<"[fence diff]">> \o debug_files[n].diff
                         \o <<"[fence]">>

\* The prompt attempt k must be given.
PromptOfAttempt(k) ==
    IF k = 1 THEN CC_USER_PROMPT_TEMPLATE
    ELSE CC_USER_PROMPT_TEMPLATE_WITH_FEEDBACK(Feedback(k - 1))

\* C6: the prompt of the first attempt carries no failed patch; the prompt of
\* attempt k > 1 carries the diff text of each of the attempts 1..k-1, in
\* attempt order, every one of them a failed attempt and none a Sound one.
C6_FeedbackAccumulates ==
    /\ pc = "query" => (i = Len(debug_files) + 1 /\ prompt = PromptOfAttempt(i))
    /\ \A k \in 1..Len(debug_files) :
           /\ debug_files[k].prompt = PromptOfAttempt(k)
           /\ \A j \in 1..(k - 1) :
                  /\ actions[j].variant \in Retryable
                  /\ actions[j].variant # "sound"
                  /\ debug_files[j].diff = Decode(actions[j].diff.value)
                  /\ ~BlankText(debug_files[j].diff)

C6_Witness ==
    /\ Len(debug_files) = 3
    /\ debug_files[1].diff = <<"x">>
    /\ debug_files[2].diff = <<" ", "y">>
    /\ debug_files[3].prompt =
           <<"I tried to fix a ", "{bug_class}", " vulnerability ... patches: ",
             "[fence diff]", "x", "[fence]", "[fence diff]", " ", "y", "[fence]",
             " Explain why the patches failed ... ", "{insights}">>

\* C7: once an attempt is classified Sound no further call of the generator
\* or of the evaluator is made, and the Task reports that Sound action.
C7_SoundStep ==
    action.variant = "sound"
    => /\ gen_calls' = gen_calls
       /\ eval_calls' = eval_calls
       /\ action' = action

C7_SoundReported ==
    (pc = "done" /\ action.variant = "sound") => task_outcome = <<action>>

C7_SoundEndsLoop == [](C7_SoundReported) /\ [][C7_SoundStep]_vars

C7_Witness ==
    /\ pc = "done"
    /\ max_iterations = 3
    /\ Variants(actions) = <<"wrong", "sound">>
    /\ Variants(task_outcome) = <<"sound">>
    /\ gen_calls = 2

\* The generator raised in the current attempt.
GenerationRaised == \E k \in 1..Len(error_logs) : error_logs[k] = i

C8_ErrorStep ==
    /\ (pc = "query" /\ pc' = "classify")
       => /\ error_logs' = Append(error_logs, i)
          /\ diff' = None
    /\ (pc \in {"classify", "record"} /\ GenerationRaised)
       => /\ eval_calls' = eval_calls
          /\ gen_calls' = gen_calls
          /\ pc = "classify" => (action' = NoPatchAction /\ pc' = "record")
          /\ pc = "record" => pc' = "choose"

C8_ErrorEnds ==
    (pc = "done" /\ error_logs # <<>>)
    => /\ exception = "none"
       /\ error_logs = <<Len(actions)>>
       /\ gen_calls = Len(actions)
       /\ actions[Len(actions)] = NoPatchAction
       /\ task_outcome = <<choose_best_action(actions)>>

C9_RaisedStep ==
    exception = "evaluate"
    => /\ gen_calls' = gen_calls
       /\ eval_calls' = eval_calls
       /\ actions' = actions
       /\ yielded' = yielded

C9_RaisedReported ==
    (pc = "done" /\ exception = "evaluate")
    => /\ yielded = <<>>
       /\ Variants(task_outcome) = <<"unknown_error">>

C9_EvaluationErrorStops == [](C9_RaisedReported) /\ [][C9_RaisedStep]_vars

C9_Witness ==
    /\ pc = "done"
    /\ exception = "evaluate"
    /\ max_iterations = 3
    /\ Variants(actions) = <<"compilable">>
    /\ gen_calls = 2
    /\ Variants(task_outcome) = <<"unknown_error">>

\* C10: whatever the generator and the evaluator do, a Task reports exactly
\* one outcome when it ends and none before, and act never yields twice.
C10_ExactlyOneOutcome ==
    /\ Len(yielded) <= 1
    /\ pc = "done" => Len(task_outcome) = 1
    /\ pc # "done" => task_outcome = <<>>
    /\ pc = "raised" => yielded = <<>>

C10_Witness ==
    /\ pc = "done"
    /\ Len(actions) = 3
    /\ Len(task_outcome) = 1
    /\ error_logs # <<>>

C10_WitnessRaised ==
    /\ pc = "done"
    /\ exception = "evaluate"
    /\ Len(task_outcome) = 1

-----------------------------------------------------------------------------
(* The source checkout around an attempt *)

\* C11: the checkout is clean when the generator starts an attempt, the diff
\* captured for the attempt is exactly the edits of that attempt, and the
\* checkout is clean again once the attempt's generation has returned to act.
C11_CheckoutCleanAroundAttempt ==
    /\ pc = "query" => worktree = <<>>
    /\ (pc = "restore_after" /\ ~coder_diff.is_none)
       => coder_diff.value = worktree
    /\ pc \in {"classify", "record"} => worktree = <<>>

-----------------------------------------------------------------------------
(* LlmUsage: token counts (int) and a cost (float) *)

\* The values of a float, scaled down: a two-bit significand and a small
\* exponent range; the unit is the smallest positive value.
FloatValues == {m * 2^e : m \in 0..3, e \in 0..4}

PowersOfTwo == {2^e : e \in 0..5}

Distance(x, y) == IF x >= y THEN x - y ELSE y - x

\* The float nearest to the real x, a tie going to the even significand.
FRound(x) ==
    LET near == {v \in FloatValues :
                    \A w \in FloatValues : Distance(v, x) <= Distance(w, x)}
    IN  IF Cardinality(near) = 1 THEN CHOOSE v \in near : TRUE
        ELSE CHOOSE v \in near : v \in PowersOfTwo

\* float + float
FAdd(x, y) == FRound(x + y)

\* LlmUsage.__add__: a new LlmUsage, the field-wise sum.
LlmUsage_add_drops_field_mutant(self, other) ==
    [total_cost |-> FAdd(self.total_cost, other.total_cost),
     prompt_tokens |-> self.prompt_tokens + other.prompt_tokens,
     completion_tokens |-> self.completion_tokens]

LlmUsage_add(self, other) ==
    [total_cost |-> FAdd(self.total_cost, other.total_cost),
     prompt_tokens |-> self.prompt_tokens + other.prompt_tokens,
     completion_tokens |-> self.completion_tokens + other.completion_tokens]

\* LlmUsage.__iadd__: the value self has afterwards.
LlmUsage_iadd_overwrite_mutant(self, other) == other

LlmUsage_iadd(self, other) ==
    [total_cost |-> FAdd(self.total_cost, other.total_cost),
     prompt_tokens |-> self.prompt_tokens + other.prompt_tokens,
     completion_tokens |-> self.completion_tokens + other.completion_tokens]

-----------------------------------------------------------------------------
(* LlmCostTracker *)

\* The loop, the stand-alone selection and the LlmUsage exercise are not run.
IdleLoop ==
    /\ max_iterations = 1
    /\ pc = "idle"
    /\ i = 0
    /\ failed_patches = <<>>
    /\ actions = <<>>
    /\ prompt = <<>>
    /\ diff = None
    /\ action = NoAction
    /\ worktree = <<>>
    /\ coder_diff = None
    /\ debug_files = <<>>
    /\ gen_calls = 0
    /\ eval_calls = 0
    /\ error_logs = <<>>
    /\ exception = "none"
    /\ yielded = <<>>
    /\ task_outcome = <<>>
    /\ spent_usd = 0

\* What _original_completion may return: a ModelResponse with usage (of a
\* model litellm has prices for, or not), one without usage, or a stream.
UsageResponses ==
    [kind : {"ModelResponse"}, has_usage : {TRUE}, priced : BOOLEAN,
     prompt_tokens : 0..MaxTokens, completion_tokens : 0..MaxTokens]

NoUsageResponse ==
    [kind |-> "ModelResponse", has_usage |-> FALSE, priced |-> TRUE,
     prompt_tokens |-> 0, completion_tokens |-> 0]

StreamResponse ==
    [kind |-> "CustomStreamWrapper", has_usage |-> FALSE, priced |-> TRUE,
     prompt_tokens |-> 0, completion_tokens |-> 0]

NoResponse ==
    [kind |-> "none", has_usage |-> FALSE, priced |-> TRUE,
     prompt_tokens |-> 0, completion_tokens |-> 0]

Responses == UsageResponses \cup {NoUsageResponse, StreamResponse}

\* litellm.cost_per_token: the price of one token of each kind.
TokenPrice == [prompt |-> 1, completion |-> 2]

\* _litellm_cost_from_usage: prompt_cost + completion_cost
_litellm_cost_from_usage(usage) ==
    FAdd(FRound(usage.prompt_tokens * TokenPrice.prompt),
         FRound(usage.completion_tokens * TokenPrice.completion))

\* _litellm_usage_from_response: the LlmUsage of a response, or None where
\* it raises (no usage in the response, or no price for the model).
_litellm_usage_from_response(response) ==
    IF ~response.has_usage \/ ~response.priced THEN None
    ELSE LET usage == [total_cost |-> 0,
                       prompt_tokens |-> response.prompt_tokens,
                       completion_tokens |-> response.completion_tokens]
         IN  Some([usage EXCEPT !.total_cost = _litellm_cost_from_usage(usage)])

\* is_exhausted()
is_exhausted_strict_mutant(total, max) == total.total_cost > max

is_exhausted(total, max) == total.total_cost >= max

\* _tracking_completion: the check that refuses a call before it is made.
Refuses_ignores_block_llm_mutant(block, total, max) == is_exhausted(total, max)

Refuses(block, total, max) == block /\ is_exhausted(total, max)

\* _update_usage(response): whether it raises, and the usages afterwards.
_update_usage_raises_mutant(total, current, response) ==
    IF response.kind # "ModelResponse"
    THEN [raised |-> FALSE, total |-> total, current |-> current, added |-> <<>>]
    ELSE LET usage == _litellm_usage_from_response(response)
         IN  IF usage.is_none
             THEN [raised |-> TRUE, total |-> total, current |-> current,
                   added |-> <<>>]
             ELSE [raised |-> FALSE,
                   total |-> LlmUsage_iadd(total, usage.value),
                   current |-> usage.value,
                   added |-> <<usage.value>>]

_update_usage(total, current, response) ==
    IF response.kind # "ModelResponse"
    THEN [raised |-> FALSE, total |-> total, current |-> current, added |-> <<>>]
    ELSE LET usage == _litellm_usage_from_response(response)
         IN  IF usage.is_none
             THEN [raised |-> FALSE, total |-> total, current |-> current,
                   added |-> <<>>]
             ELSE [raised |-> FALSE,
                   total |-> LlmUsage_iadd(total, usage.value),
                   current |-> usage.value,
                   added |-> <<usage.value>>]

\* The exception of the blocking check, and those of a failing generator call.
BudgetError ==
    [class |-> "Exception",
     message |-> "LlmCostTracker: LLM cost limit exceeded, aborting",
     origin |-> "tracker"]

GeneratorErrors ==
    [class : {"Exception", "APIConnectionError"},
     message : {"completion failed"}, origin : {"generator"}]

\* The usage a response carries; none counts as the zero usage.
DeltaOf(response) ==
    LET usage == _litellm_usage_from_response(response)
    IN  IF response.kind # "ModelResponse" \/ usage.is_none THEN ZeroUsage
        ELSE usage.value

InitTracker ==
    /\ IdleLoop
    /\ InitSel
    /\ IdleUsage
    /\ IdleBench
    /\ IdleExt
    /\ max_cost \in {0, 2, 3}
    /\ block_llm \in BOOLEAN
    /\ total_usage = ZeroUsage
    /\ current_usage = ZeroUsage
    /\ n_calls = 0
    /\ underlying_calls = 0
    /\ recorded = <<>>
    /\ last_call = NoCall
    /\ errors = {}

\* _tracking_completion: the blocking check raises.
TrackingCompletionBlocked ==
    /\ n_calls < MaxCalls
    /\ Refuses(block_llm, total_usage, max_cost)
    /\ n_calls' = n_calls + 1
    /\ last_call' = [status |-> "blocked", response |-> NoResponse,
                     delta |-> ZeroUsage]
    /\ errors' = errors \cup {BudgetError}
    /\ UNCHANGED <<max_cost, block_llm, total_usage, current_usage,
                   underlying_calls, recorded>>

\* _tracking_completion: _original_completion raises.
TrackingCompletionFails ==
    /\ n_calls < MaxCalls
    /\ ~(Refuses(block_llm, total_usage, max_cost))
    /\ n_calls' = n_calls + 1
    /\ underlying_calls' = underlying_calls + 1
    /\ last_call' = [status |-> "failed", response |-> NoResponse,
                     delta |-> ZeroUsage]
    /\ \E e \in GeneratorErrors : errors' = errors \cup {e}
    /\ UNCHANGED <<max_cost, block_llm, total_usage, current_usage, recorded>>

\* _tracking_completion: _original_completion returns a response, the usage
\* is updated and the response is returned.
TrackingCompletionReturns ==
    /\ n_calls < MaxCalls
    /\ ~(Refuses(block_llm, total_usage, max_cost))
    /\ n_calls' = n_calls + 1
    /\ underlying_calls' = underlying_calls + 1
    /\ \E response \in Responses :
           LET upd == _update_usage(total_usage, current_usage, response)
           IN  /\ total_usage' = upd.total
               /\ current_usage' = upd.current
               /\ recorded' = recorded \o upd.added
               /\ last_call' =
                      [status |-> IF upd.raised THEN "failed" ELSE "returned",
                       response |-> response, delta |-> DeltaOf(response)]
               /\ errors' = IF upd.raised
                            THEN errors \cup
                                     {[class |-> "ValueError",
                                       message |-> "Response does not contain usage",
                                       origin |-> "tracker"]}
                            ELSE errors
    /\ UNCHANGED <<max_cost, block_llm>>

NextTracker ==
    \/ TrackingCompletionBlocked /\ UNCHANGED <<loop_vars, sel_vars, usage_vars, bench_vars, ext_vars>>
    \/ TrackingCompletionFails /\ UNCHANGED <<loop_vars, sel_vars, usage_vars, bench_vars, ext_vars>>
    \/ TrackingCompletionReturns /\ UNCHANGED <<loop_vars, sel_vars, usage_vars, bench_vars, ext_vars>>

SpecTracker == InitTracker /\ [][NextTracker]_vars

-----------------------------------------------------------------------------
(* Properties of LlmCostTracker *)

\* The cumulative cost has reached the ceiling.
Exhausted == total_usage.total_cost >= max_cost

ACall == n_calls' = n_calls + 1

\* C12: in blocking mode a call made while the cumulative cost is at or over
\* the ceiling fails before the underlying completion function is called and
\* leaves total and current usage as they were; a call made otherwise is
\* never refused: the underlying function is called and, when it returns, the
\* usage of the response is added in full, even past the ceiling.
C12_Step ==
    ACall =>
        IF block_llm /\ Exhausted
        THEN /\ last_call'.status = "blocked"
             /\ BudgetError \in errors'
             /\ underlying_calls' = underlying_calls
             /\ total_usage' = total_usage
             /\ current_usage' = current_usage
        ELSE /\ last_call'.status # "blocked"
             /\ underlying_calls' = underlying_calls + 1
             /\ last_call'.status = "returned" =>
                    /\ total_usage'.total_cost =
                           FAdd(total_usage.total_cost, last_call'.delta.total_cost)
                    /\ total_usage'.prompt_tokens =
                           total_usage.prompt_tokens + last_call'.delta.prompt_tokens
                    /\ total_usage'.completion_tokens =
                           total_usage.completion_tokens
                               + last_call'.delta.completion_tokens

C12_BlockingIsPreflight == [][C12_Step]_vars

C12_Witness ==
    /\ block_llm
    /\ last_call.status = "blocked"
    /\ underlying_calls = 2
    /\ max_cost = 2
    /\ total_usage.total_cost = 4

RECURSIVE SumOf(_)
\* The usages of a list merged in order, from the zero usage.
SumOf(us) ==
    IF us = <<>> THEN ZeroUsage
    ELSE LET rest == SumOf(SubSeq(us, 1, Len(us) - 1))
             last == us[Len(us)]
         IN  [total_cost |-> FAdd(rest.total_cost, last.total_cost),
              prompt_tokens |-> rest.prompt_tokens + last.prompt_tokens,
              completion_tokens |->
                  rest.completion_tokens + last.completion_tokens]

\* C13: is_exhausted() is true exactly when the cumulative cost is at or over
\* the ceiling; no field of the cumulative usage ever decreases; it is the
\* sum, in order, of the usages recorded so far; once exhausted, a tracker
\* stays exhausted.
C13_State ==
    /\ is_exhausted(total_usage, max_cost) <=> total_usage.total_cost >= max_cost
    /\ total_usage = SumOf(recorded)

C13_Step ==
    /\ total_usage'.total_cost >= total_usage.total_cost
    /\ total_usage'.prompt_tokens >= total_usage.prompt_tokens
    /\ total_usage'.completion_tokens >= total_usage.completion_tokens
    /\ Exhausted => Exhausted'

C13_UsageAccumulates == [](C13_State) /\ [][C13_Step]_vars

C13_Witness ==
    /\ Len(recorded) = 3
    /\ recorded[1].total_cost = 3
    /\ recorded[3].total_cost = 1
    /\ max_cost = 3
    /\ total_usage.total_cost > 3

\* A response without usage metadata, or one that is not a ModelResponse.
LacksUsage(response) ==
    response.kind = "CustomStreamWrapper"
        \/ (response.kind = "ModelResponse" /\ ~response.has_usage)

\* C14: a call whose response lacks usage metadata, or is a stream, returns
\* that response to the caller; the accounting raises nothing and the
\* cumulative usage is unchanged.
C14_Step ==
    (ACall /\ LacksUsage(last_call'.response))
    => /\ last_call'.status = "returned"
       /\ errors' = errors
       /\ total_usage' = total_usage
       /\ recorded' = recorded

C14_MissingUsageIsZeroCost == [][C14_Step]_vars

C14_Witness ==
    /\ last_call.status = "returned"
    /\ last_call.response = NoUsageResponse
    /\ total_usage.total_cost = 3
    /\ Len(recorded) = 1

\* C15: after every call that returned, the current usage is the usage of
\* that call's response: zero when the response carried no usage metadata.
C15_CurrentIsLatestDelta ==
    (last_call.status = "returned"
        /\ (LacksUsage(last_call.response) \/ last_call.response.priced))
    => current_usage = last_call.delta

\* C16: the exception of the blocking check is of a class of its own: no
\* failure of the generator call has the class of the budget failure.
C16_BudgetErrorIsDistinguished ==
    \A e1, e2 \in errors :
        (e1 = BudgetError /\ e2.origin = "generator") => e1.class # e2.class

-----------------------------------------------------------------------------
(* LlmUsage on its own: merges of three constructed values *)

\* The LlmUsage values a, b and c are constructed with.
UsageValues ==
    [total_cost : {v \in FloatValues : v <= 4},
     prompt_tokens : 0..MaxTokens,
     completion_tokens : 0..MaxTokens]

InitUsage ==
    /\ IdleLoop
    /\ InitSel
    /\ IdleTracker
    /\ IdleBench
    /\ IdleExt
    /\ u_pc = "add"
    /\ u_a \in UsageValues
    /\ u_b \in UsageValues
    /\ u_c \in UsageValues
    /\ u_in = <<u_a, u_b, u_c>>
    /\ u_out = <<>>

\* a + b, b + a, (a + b) + c, a + (b + c), a + LlmUsage(), LlmUsage() + a:
\* __add__ builds a new object each time and assigns to no operand.
UsageAdd ==
    /\ u_pc = "add"
    /\ u_out' = [ab |-> LlmUsage_add(u_a, u_b),
                 ba |-> LlmUsage_add(u_b, u_a),
                 ab_c |-> LlmUsage_add(LlmUsage_add(u_a, u_b), u_c),
                 a_bc |-> LlmUsage_add(u_a, LlmUsage_add(u_b, u_c)),
                 a_zero |-> LlmUsage_add(u_a, ZeroUsage),
                 zero_a |-> LlmUsage_add(ZeroUsage, u_a)]
    /\ u_pc' = "iadd"
    /\ UNCHANGED <<u_a, u_b, u_c, u_in>>

\* a += b: __iadd__ assigns the sums to the fields of a and returns a.
UsageIAdd ==
    /\ u_pc = "iadd"
    /\ u_a' = LlmUsage_iadd(u_a, u_b)
    /\ u_pc' = "done"
    /\ UNCHANGED <<u_b, u_c, u_in, u_out>>

NextUsage ==
    \/ UsageAdd /\ UNCHANGED <<loop_vars, sel_vars, trk_vars, bench_vars, ext_vars>>
    \/ UsageIAdd /\ UNCHANGED <<loop_vars, sel_vars, trk_vars, bench_vars, ext_vars>>

SpecUsage == InitUsage /\ [][NextUsage]_vars

\* C17 (as stated): merge is commutative and associative with the zero Usage
\* as identity, on whole Usage values; a + b leaves a and b unchanged;
\* a += b gives a the value of a + b and leaves b unchanged.
C17_MergeAssociativeCommutative ==
    /\ u_pc \in {"iadd", "done"} =>
          /\ u_out.ab = u_out.ba
          /\ u_out.ab_c = u_out.a_bc
          /\ u_out.a_zero = u_in[1] /\ u_out.zero_a = u_in[1]
    /\ u_pc = "iadd" => <<u_a, u_b, u_c>> = u_in
    /\ u_pc = "done" => (u_a = u_out.ab /\ <<u_b, u_c>> = <<u_in[2], u_in[3]>>)

\* The real sum x + y + z is a float, and so are its partial sums.
ExactSums(x, y, z) ==
    /\ x + y \in FloatValues
    /\ y + z \in FloatValues
    /\ x + y + z \in FloatValues

\* C17 (amended): merge sums every field, the token counts exactly and the
\* cost as a float; it is commutative with the zero Usage as identity; it is
\* associative on the token counts, and on the cost when the sums are exact
\* (otherwise the two groupings may round differently); a + b leaves a and b
\* unchanged; a += b gives a the value of a + b and leaves b unchanged.
C17_MergeSumsFields ==
    /\ u_pc \in {"iadd", "done"} =>
          /\ u_out.ab.prompt_tokens = u_in[1].prompt_tokens + u_in[2].prompt_tokens
          /\ u_out.ab.completion_tokens =
                 u_in[1].completion_tokens + u_in[2].completion_tokens
          /\ u_out.ab.total_cost = FRound(u_in[1].total_cost + u_in[2].total_cost)
          /\ u_out.ab = u_out.ba
          /\ u_out.a_zero = u_in[1] /\ u_out.zero_a = u_in[1]
          /\ u_out.ab_c.prompt_tokens = u_out.a_bc.prompt_tokens
          /\ u_out.ab_c.completion_tokens = u_out.a_bc.completion_tokens
          /\ u_out.ab_c.prompt_tokens =
                 u_in[1].prompt_tokens + u_in[2].prompt_tokens
                     + u_in[3].prompt_tokens
          /\ ExactSums(u_in[1].total_cost, u_in[2].total_cost, u_in[3].total_cost)
                 => u_out.ab_c = u_out.a_bc
    /\ u_pc = "iadd" => <<u_a, u_b, u_c>> = u_in
    /\ u_pc = "done" => (u_a = u_out.ab /\ <<u_b, u_c>> = <<u_in[2], u_in[3]>>)

C17_Witness ==
    /\ u_pc = "done"
    /\ u_in = <<[total_cost |-> 1, prompt_tokens |-> 1, completion_tokens |-> 0],
                [total_cost |-> 1, prompt_tokens |-> 0, completion_tokens |-> 1],
                [total_cost |-> 4, prompt_tokens |-> 1, completion_tokens |-> 1]>>
    /\ u_out.ab_c = [total_cost |-> 6, prompt_tokens |-> 2, completion_tokens |-> 2]
    /\ u_out.a_bc = [total_cost |-> 4, prompt_tokens |-> 2, completion_tokens |-> 2]
    /\ u_a = [total_cost |-> 2, prompt_tokens |-> 1, completion_tokens |-> 1]

\* ---------------------------------------------------------------------
\* The benchmark orchestrator: run (scripts/eval/afc_benchmark.py), for one
\* application module and the detection files DetectionFiles, invoked up
\* to MaxSweeps times over the same reports directory.
\* ---------------------------------------------------------------------

\* A directory holding the artefacts and the result.json of one run.
DirectoryOf(r) == [exists |-> TRUE, result |-> r]

\* What a child job can leave behind: whether it ran into the timeout, its
\* exit code, and what _crete_return.json holds (a job that is killed or
\* fails is taken to leave no document; a document it left would not be read).
Documents ==
    {"missing", "unparsable", "sound", "compilable", "wrong", "unknown_error",
     "bogus"}

ChildJobs ==
    {[timed_out |-> TRUE, returncode |-> 1, document |-> "missing"],
     [timed_out |-> FALSE, returncode |-> 1, document |-> "missing"]}
    \cup [timed_out : {FALSE}, returncode : {0}, document : Documents]

\* The variants _run_crete_app accepts in the document.
CreteVariants ==
    {"sound", "vulnerable", "compilable", "uncompilable", "wrong",
     "internal_tests_failure", "unknown_error", "no_patch"}

\* A call that returned a CreteResult, and one that raised.
Returned(variant) == [raised |-> "none", variant |-> variant]

Raised(class) == [raised |-> class, variant |-> "none"]

\* _run_crete_app: the CreteResult it returns or the exception it raises.
_run_crete_app_accepts_any_variant_mutant(job) ==
    IF job.timed_out THEN Raised("TimeoutExpired")
    ELSE IF job.returncode # 0 THEN Raised("CalledProcessError")
    ELSE IF job.document = "missing" THEN Raised("FileNotFoundError")
    ELSE IF job.document = "unparsable" THEN Raised("JSONDecodeError")
    ELSE Returned(job.document)
_run_crete_app(job) ==
    IF job.timed_out THEN Raised("TimeoutExpired")
    ELSE IF job.returncode # 0 THEN Raised("CalledProcessError")
    ELSE IF job.document = "missing" THEN Raised("FileNotFoundError")
    ELSE IF job.document = "unparsable" THEN Raised("JSONDecodeError")
    ELSE IF job.document \in CreteVariants THEN Returned(job.document)
    ELSE Raised("ValueError")

\* What the re-verification of a sound patch returns, or that it raised.
RecheckOutcomes == {"sound", "wrong", "raised"}

\* verify_patch_with_patch_checker: its CreteResult or its exception.
verify_patch_trusts_the_child_mutant(recheck) == Returned("sound")

verify_patch(recheck) ==
    IF recheck = "raised" THEN Raised("VerifierError") ELSE Returned(recheck)

\* str(e) for the exceptions _run_single_benchmark catches.
StrOf ==
    [c \in {"TimeoutExpired", "CalledProcessError", "FileNotFoundError",
            "JSONDecodeError", "ValueError", "VerifierError"} |->
        CASE c = "TimeoutExpired" -> "Command timed out after N seconds"
          [] c = "CalledProcessError" -> "Command returned non-zero exit status"
          [] c = "FileNotFoundError" -> "No such file or directory"
          [] c = "JSONDecodeError" -> "Expecting value"
          [] c = "ValueError" -> "Unknown variant"
          [] c = "VerifierError" -> "verifier failed"]

\* BenchmarkResult.from_crete_result: the message it takes from the result.
from_crete_result(variant) ==
    IF variant = "unknown_error" THEN "error of the ErrorResult" ELSE ""

\* The detection files whose stem ends in "-sarif".
SarifDetectionFiles == {"cpv-1-sarif"}

\* What the full-mode detection file of a sarif detection gives: there is
\* none, or what the re-verification with it returns, or that it raised.
FullOutcomes == {"no_file", "sound", "wrong", "raised"}

\* _detection_from_sarif_detection_file: the full-mode file, or None.
_detection_from_sarif_detection_file(detection_file, full) ==
    IF full = "no_file" THEN None ELSE Some(<<detection_file, "full">>)

\* verify_patch_with_crete: its CreteResult or its exception.
verify_patch_with_crete(full) ==
    IF full = "raised" THEN Raised("VerifierError") ELSE Returned(full)

\* _run_single_benchmark: the variant, message and llm_cost of the
\* BenchmarkResult it returns, and the exception its except clause caught.
\* llm_usage is the cost the child job reported in its result.
_run_single_benchmark(detection_file, job, llm_usage, full, recheck) ==
    LET child == _run_crete_app(job)
        validation == _detection_from_sarif_detection_file(detection_file, full)
        crete_result ==
            IF /\ detection_file \in SarifDetectionFiles
               /\ child.variant = "sound"
               /\ ~validation.is_none
            THEN verify_patch_with_crete(full)
            ELSE child
        checked == IF crete_result.variant = "sound"
                   THEN verify_patch(recheck)
                   ELSE crete_result
    IN  IF child.raised # "none"
        THEN [variant |-> "unknown_error", error |-> child.raised,
              message |-> StrOf[child.raised], llm_cost |-> 0]
        ELSE IF crete_result.raised # "none"
        THEN [variant |-> "unknown_error", error |-> crete_result.raised,
              message |-> StrOf[crete_result.raised], llm_cost |-> llm_usage]
        ELSE IF checked.raised # "none"
        THEN [variant |-> "unknown_error", error |-> checked.raised,
              message |-> StrOf[checked.raised], llm_cost |-> llm_usage]
        ELSE [variant |-> checked.variant, error |-> "none",
              message |-> from_crete_result(checked.variant),
              llm_cost |-> llm_usage]

\* clean_task_directory: the checkout restored, build output removed.
clean_task_directory(directory) == "clean"

\* BenchmarkResult.is_worse_than: the answers it can give.  It compares by
\* the outcome ordering; for a variant outside the ordering the answer is
\* not determined.
is_worse_than(new, old) ==
    IF new.variant \in Ordered /\ old.variant \in Ordered
    THEN {Rank[new.variant] < Rank[old.variant]}
    ELSE BOOLEAN

\* run, lines 192-198: prev_result.
LoadPrevAlways_mutant(keep, directory) == directory.result
LoadPrev(keep, directory) == IF keep THEN directory.result ELSE NoResult

\* run, lines 200-202: the cell is skipped.
EarlyExit(prev) ==
    prev # NoResult /\ early_exit_on_sound /\ prev.variant = "sound"

\* run, line 226: the new run's directory replaces the stored one.
ReplacesWhenWorse_mutant(worse) == worse
Replaces(worse) == ~worse

\* run, line 225: the retention branch is taken.
Retention == keep_best_result /\ prev_result # NoResult

\* run, lines 189-191: the task's cache directory before the child job.
CacheBefore_always_removes_mutant == "empty"
CacheBefore == IF no_cache \/ task_cache = "absent" THEN "empty" ELSE task_cache

\* run, line 239: report_path.exists().
ReportNeverExists_mutant == FALSE
ReportExists == report # None

\* BenchmarkReport.append and BenchmarkReport.save on the report file.
ReportAppend(rows, results) == rows \o results

ReportSave(results) == results

InitBench ==
    /\ keep_best_result \in BOOLEAN
    /\ early_exit_on_sound \in BOOLEAN
    /\ no_cache \in BOOLEAN
    /\ b_pc = "idle"
    /\ sweep = 0
    /\ cell = 0
    /\ stored = [d \in DOMAIN DetectionFiles |-> AbsentDirectory]
    /\ tmp = [d \in DOMAIN DetectionFiles |-> AbsentDirectory]
    /\ output_directory = "stem"
    /\ prev_result = NoResult
    /\ result = NoResult
    /\ run_result = NoResult
    /\ benchmark_results = <<>>
    /\ report = None
    /\ child_runs = 0
    /\ task_cache = "absent"
    /\ child_job = NoJob
    /\ run_error = "none"
    /\ message = ""
    /\ task_directory \in {"clean", "dirty"}
    /\ IdleExt
    /\ IdleLoop
    /\ InitSel
    /\ IdleTracker
    /\ IdleUsage

\* run, lines 164-166: a sweep begins.
SweepStart ==
    /\ b_pc = "idle"
    /\ sweep < MaxSweeps
    /\ sweep' = sweep + 1
    /\ benchmark_results' = <<>>
    /\ cell' = 1
    /\ b_pc' = "cell"
    /\ UNCHANGED <<keep_best_result, early_exit_on_sound, no_cache, stored,
                   tmp, output_directory, prev_result, result, run_result,
                   report, child_runs, task_cache,
                   child_job, run_error, message, task_directory>>

\* run, lines 175-202: the cell is left by the early exit.
CellSkipped ==
    /\ b_pc = "cell"
    /\ cell \in DOMAIN DetectionFiles
    /\ LET prev == LoadPrev(keep_best_result, stored[cell])
       IN  /\ EarlyExit(prev)
           /\ prev_result' = prev
    /\ task_cache' = CacheBefore
    /\ task_directory' = clean_task_directory(task_directory)
    /\ output_directory' = "stem"
    /\ cell' = cell + 1
    /\ UNCHANGED <<keep_best_result, early_exit_on_sound, no_cache, b_pc,
                   sweep, stored, tmp, result, run_result, benchmark_results,
                   report, child_runs,
                   child_job, run_error, message>>

\* run, lines 175-209: the cell's output directory is chosen and emptied.
CellPrepared ==
    /\ b_pc = "cell"
    /\ cell \in DOMAIN DetectionFiles
    /\ LET prev == LoadPrev(keep_best_result, stored[cell])
       IN  /\ ~EarlyExit(prev)
           /\ prev_result' = prev
           /\ IF prev # NoResult
              THEN /\ output_directory' = "tmp"
                   /\ tmp' = [tmp EXCEPT ![cell] = EmptyDirectory]
                   /\ stored' = stored
              ELSE /\ output_directory' = "stem"
                   /\ stored' = [stored EXCEPT ![cell] = EmptyDirectory]
                   /\ tmp' = tmp
    /\ task_cache' = CacheBefore
    /\ task_directory' = clean_task_directory(task_directory)
    /\ b_pc' = "run"
    /\ UNCHANGED <<keep_best_result, early_exit_on_sound, no_cache, sweep,
                   cell, result, run_result, benchmark_results, report,
                   child_runs,
                   child_job, run_error, message>>

\* run, lines 211-220: the child job runs and its result.json is written.
RunSingleBenchmark ==
    /\ b_pc = "run"
    /\ \E job \in ChildJobs, recheck \in RecheckOutcomes, built \in BOOLEAN,
          left \in {"clean", "dirty"} :
          LET b == _run_single_benchmark(DetectionFiles[cell], job, 0, "no_file",
                                         recheck)
              r == [cpv_name |-> DetectionFiles[cell],
                    variant |-> b.variant,
                    sweep |-> sweep]
          IN  /\ result' = r
              /\ child_job' = job
              /\ run_error' = b.error
              /\ message' = b.message
              /\ task_directory' = left
              /\ run_result' = r
              /\ IF output_directory = "tmp"
                 THEN /\ tmp' = [tmp EXCEPT ![cell] = DirectoryOf(r)]
                      /\ stored' = stored
                 ELSE /\ stored' = [stored EXCEPT ![cell] = DirectoryOf(r)]
                      /\ tmp' = tmp
              /\ task_cache' = IF built THEN "built" ELSE task_cache
    /\ child_runs' = child_runs + 1
    /\ b_pc' = "clean"
    /\ UNCHANGED <<keep_best_result, early_exit_on_sound, no_cache, sweep,
                   cell, output_directory, prev_result, benchmark_results,
                   report>>

\* run, lines 221-223: the cache and the task directory after the child job.
CleanAfterRun ==
    /\ b_pc = "clean"
    /\ task_cache' = IF no_cache THEN "absent" ELSE task_cache
    /\ task_directory' = clean_task_directory(task_directory)
    /\ b_pc' = "retain"
    /\ UNCHANGED <<keep_best_result, early_exit_on_sound, no_cache, sweep,
                   cell, stored, tmp, output_directory, prev_result, result,
                   run_result, benchmark_results, report, child_runs,
                   child_job, run_error, message>>

\* run, lines 225-227: the new result is not worse; the stored directory goes.
RemoveStored ==
    /\ b_pc = "retain"
    /\ Retention
    /\ \E worse \in is_worse_than(result, prev_result) : Replaces(worse)
    /\ stored' = [stored EXCEPT ![cell] = AbsentDirectory]
    /\ b_pc' = "copy"
    /\ UNCHANGED <<keep_best_result, early_exit_on_sound, no_cache, sweep,
                   cell, tmp, output_directory, prev_result, result,
                   run_result, benchmark_results, report, child_runs,
                   task_cache,
                   child_job, run_error, message, task_directory>>

\* run, lines 228-231: the output directory is copied to the stored one.
CopyOutput ==
    /\ b_pc = "copy"
    /\ stored' = [stored EXCEPT ![cell] = tmp[cell]]
    /\ b_pc' = "rm_output"
    /\ UNCHANGED <<keep_best_result, early_exit_on_sound, no_cache, sweep,
                   cell, tmp, output_directory, prev_result, result,
                   run_result, benchmark_results, report, child_runs,
                   task_cache,
                   child_job, run_error, message, task_directory>>

\* run, lines 232-233: the new result is worse; the stored one is reported.
KeepStored ==
    /\ b_pc = "retain"
    /\ Retention
    /\ \E worse \in is_worse_than(result, prev_result) : ~Replaces(worse)
    /\ result' = prev_result
    /\ b_pc' = "rm_output"
    /\ UNCHANGED <<keep_best_result, early_exit_on_sound, no_cache, sweep,
                   cell, stored, tmp, output_directory, prev_result,
                   run_result, benchmark_results, report, child_runs,
                   task_cache,
                   child_job, run_error, message, task_directory>>

\* run, line 234: the output directory of the run is removed.
RemoveOutput ==
    /\ b_pc = "rm_output"
    /\ IF output_directory = "tmp"
       THEN tmp' = [tmp EXCEPT ![cell] = AbsentDirectory] /\ stored' = stored
       ELSE stored' = [stored EXCEPT ![cell] = AbsentDirectory] /\ tmp' = tmp
    /\ b_pc' = "append"
    /\ UNCHANGED <<keep_best_result, early_exit_on_sound, no_cache, sweep,
                   cell, output_directory, prev_result, result, run_result,
                   benchmark_results, report, child_runs, task_cache,
                   child_job, run_error, message, task_directory>>

\* run, lines 225 and 236: the cell's result joins the sweep's results.
AppendResult ==
    /\ \/ b_pc = "append"
       \/ b_pc = "retain" /\ ~Retention
    /\ benchmark_results' = Append(benchmark_results, result)
    /\ cell' = cell + 1
    /\ b_pc' = "cell"
    /\ UNCHANGED <<keep_best_result, early_exit_on_sound, no_cache, sweep,
                   stored, tmp, output_directory, prev_result, result,
                   run_result, report, child_runs, task_cache,
                   child_job, run_error, message, task_directory>>

\* run, lines 238-246: the sweep's results go to the report file.
SweepEnd ==
    /\ b_pc = "cell"
    /\ cell = Len(DetectionFiles) + 1
    /\ report' = IF ReportExists
                 THEN Some(ReportAppend(report.value, benchmark_results))
                 ELSE Some(ReportSave(benchmark_results))
    /\ b_pc' = "idle"
    /\ UNCHANGED <<keep_best_result, early_exit_on_sound, no_cache, sweep,
                   cell, stored, tmp, output_directory, prev_result, result,
                   run_result, benchmark_results, child_runs, task_cache,
                   child_job, run_error, message, task_directory>>

NextBench ==
    \/ SweepStart /\ UNCHANGED <<loop_vars, sel_vars, trk_vars, usage_vars, ext_vars>>
    \/ CellSkipped /\ UNCHANGED <<loop_vars, sel_vars, trk_vars, usage_vars, ext_vars>>
    \/ CellPrepared /\ UNCHANGED <<loop_vars, sel_vars, trk_vars, usage_vars, ext_vars>>
    \/ RunSingleBenchmark /\ UNCHANGED <<loop_vars, sel_vars, trk_vars, usage_vars, ext_vars>>
    \/ CleanAfterRun /\ UNCHANGED <<loop_vars, sel_vars, trk_vars, usage_vars, ext_vars>>
    \/ RemoveStored /\ UNCHANGED <<loop_vars, sel_vars, trk_vars, usage_vars, ext_vars>>
    \/ CopyOutput /\ UNCHANGED <<loop_vars, sel_vars, trk_vars, usage_vars, ext_vars>>
    \/ KeepStored /\ UNCHANGED <<loop_vars, sel_vars, trk_vars, usage_vars, ext_vars>>
    \/ RemoveOutput /\ UNCHANGED <<loop_vars, sel_vars, trk_vars, usage_vars, ext_vars>>
    \/ AppendResult /\ UNCHANGED <<loop_vars, sel_vars, trk_vars, usage_vars, ext_vars>>
    \/ SweepEnd /\ UNCHANGED <<loop_vars, sel_vars, trk_vars, usage_vars, ext_vars>>

SpecBench == InitBench /\ [][NextBench]_vars

\* Both results carry a variant of the outcome ordering.
BothOrdered(new, old) == new.variant \in Ordered /\ old.variant \in Ordered

\* The cell's retention is complete: line 234 has run, line 236 has not.
RetentionDone == b_pc = "append"

\* The new run's directory is now the stored one, and its result is reported.
Replaced == stored[cell] = DirectoryOf(run_result) /\ result = run_result

\* The stored directory is as it was, and its result is reported.
Retained == stored[cell] = DirectoryOf(prev_result) /\ result = prev_result

C18_State ==
    RetentionDone =>
        /\ tmp[cell] = AbsentDirectory
        /\ Replaced \/ Retained
        /\ BothOrdered(run_result, prev_result) =>
              IF Rank[run_result.variant] >= Rank[prev_result.variant]
              THEN Replaced
              ELSE Retained

C18_Step ==
    /\ RetentionDone =>
          benchmark_results' = Append(benchmark_results, stored[cell].result)
    /\ keep_best_result =>
          \A d \in DOMAIN DetectionFiles :
              BothOrdered(stored'[d].result, stored[d].result) =>
                  Rank[stored'[d].result.variant] >= Rank[stored[d].result.variant]

\* C18: with keep-best-result and a stored result for the cell, once the
\* cell's retention is complete the temporary output directory is gone and
\* either the new run's directory has replaced the stored one, or the stored
\* directory is as before; for outcomes of the ordering the first happens
\* exactly when the new outcome ranks at least as high as the stored one
\* (equal rank replaces).  The result appended for the cell is the one in
\* the stored directory, and no step of any sweep lowers the rank of a
\* stored outcome.
C18_BestResultRetention == []C18_State /\ [][C18_Step]_vars

\* Second sweep: cell 1 went from wrong to compilable (replaced), cell 2 had
\* sound stored and ran wrong (retained).
C18_Witness ==
    /\ RetentionDone
    /\ sweep = 2 /\ cell = 2
    /\ report = Some(<<[cpv_name |-> "cpv-1", variant |-> "wrong", sweep |-> 1],
                       [cpv_name |-> "cpv-2", variant |-> "sound", sweep |-> 1]>>)
    /\ stored[1] = DirectoryOf([cpv_name |-> "cpv-1", variant |-> "compilable",
                                sweep |-> 2])
    /\ benchmark_results = <<stored[1].result>>
    /\ run_result = [cpv_name |-> "cpv-2", variant |-> "wrong", sweep |-> 2]
    /\ stored[2] = DirectoryOf([cpv_name |-> "cpv-2", variant |-> "sound",
                                sweep |-> 1])
    /\ result = stored[2].result
    /\ tmp[2] = AbsentDirectory

\* Equal rank: the stored sound result of sweep 1 is replaced by sweep 2's.
C18_WitnessTie ==
    /\ RetentionDone
    /\ prev_result = [cpv_name |-> "cpv-1", variant |-> "sound", sweep |-> 1]
    /\ stored[1].result = [cpv_name |-> "cpv-1", variant |-> "sound", sweep |-> 2]

\* The cell at hand has a stored sound result.
StoredSound ==
    /\ b_pc = "cell"
    /\ cell \in DOMAIN DetectionFiles
    /\ stored[cell].result.variant = "sound"

C19_Step ==
    /\ (StoredSound /\ keep_best_result /\ early_exit_on_sound) =>
          /\ child_runs' = child_runs
          /\ stored' = stored /\ tmp' = tmp
          /\ b_pc' = "cell" /\ cell' = cell + 1
    /\ (b_pc = "cell" /\ cell \in DOMAIN DetectionFiles /\ ~keep_best_result) =>
          b_pc' = "run"
    /\ b_pc = "run" => (child_runs' = child_runs + 1 /\ b_pc' = "clean")

\* C19: with early-exit-on-sound and keep-best-result both set, a cell whose
\* stored result is sound is passed over in one step that starts no child
\* job and leaves the stored and temporary directories as they are; without
\* keep-best-result every cell goes on to its run, which starts a child job,
\* whatever is stored and whatever early-exit-on-sound says.
C19_EarlyExitSkipsSound == [][C19_Step]_vars

\* Second sweep, cell 1 was skipped: still the two child jobs of sweep 1.
C19_Witness ==
    /\ keep_best_result /\ early_exit_on_sound
    /\ sweep = 2 /\ b_pc = "cell" /\ cell = 2
    /\ stored[1] = DirectoryOf([cpv_name |-> "cpv-1", variant |-> "sound",
                                sweep |-> 1])
    /\ child_runs = 2

\* Without keep-best-result the stored sound result is run over again.
C19_WitnessRerun ==
    /\ ~keep_best_result /\ early_exit_on_sound
    /\ sweep = 2 /\ b_pc = "clean" /\ cell = 1
    /\ report.value[1].variant = "sound"
    /\ child_runs = 3

\* C20: when a sweep has ended, its list of results has exactly one entry
\* for every detection file given, in order.
C20_OneResultPerCell ==
    (b_pc = "idle" /\ sweep > 0) =>
        /\ Len(benchmark_results) = Len(DetectionFiles)
        /\ \A k \in DOMAIN DetectionFiles :
              benchmark_results[k].cpv_name = DetectionFiles[k]

\* ---------------------------------------------------------------------
\* change_result.py beside the orchestrator: change_variant is run on the
\* report file between sweeps.
\* ---------------------------------------------------------------------

\* change_result.py, lines 7-17.
variant_values_with_bogus_mutant ==
    {"sound", "vulnerable", "compilable", "uncompilable", "wrong",
     "wrong_format", "internal_tests_failure", "unknown_error", "no_patch",
     "bogus"}

variant_values ==
    {"sound", "vulnerable", "compilable", "uncompilable", "wrong",
     "wrong_format", "internal_tests_failure", "unknown_error", "no_patch"}

\* The arguments change_variant is called with.
ChangeNames == {"cpv-1", "cpv-9"}

ChangeVariants == {"wrong_format", "bogus"}

\* change_variant, lines 47-53: the index of the first row of that name, or 0.
LastRow_mutant(rows, cpv_name) ==
    IF \E k \in DOMAIN rows : rows[k].cpv_name = cpv_name
    THEN CHOOSE k \in DOMAIN rows :
             /\ rows[k].cpv_name = cpv_name
             /\ \A j \in (k + 1)..Len(rows) : rows[j].cpv_name # cpv_name
    ELSE 0

FirstRow(rows, cpv_name) ==
    IF \E k \in DOMAIN rows : rows[k].cpv_name = cpv_name
    THEN CHOOSE k \in DOMAIN rows :
             /\ rows[k].cpv_name = cpv_name
             /\ \A j \in 1..(k - 1) : rows[j].cpv_name # cpv_name
    ELSE 0

\* change_variant: the rows of the file after the call.
change_variant(rows, cpv_name, new_variant) ==
    IF new_variant \notin variant_values THEN rows
    ELSE IF FirstRow(rows, cpv_name) = 0 THEN rows
    ELSE [rows EXCEPT ![FirstRow(rows, cpv_name)].variant = new_variant]

\* change_result.py main: the file exists and change_variant is applied.
ChangeVariant ==
    /\ b_pc = "idle"
    /\ report # None
    /\ \E cpv_name \in ChangeNames, new_variant \in ChangeVariants :
          report' = Some(change_variant(report.value, cpv_name, new_variant))
    /\ UNCHANGED <<keep_best_result, early_exit_on_sound, no_cache, b_pc,
                   sweep, cell, stored, tmp, output_directory, prev_result,
                   result, run_result, benchmark_results, child_runs,
                   task_cache, child_job, run_error, message, task_directory>>

NextReport ==
    \/ NextBench
    \/ ChangeVariant /\ UNCHANGED <<loop_vars, sel_vars, trk_vars, usage_vars, ext_vars>>

SpecReport == InitBench /\ [][NextReport]_vars

\* The child job timed out, failed, left no parsable document, or left one
\* with an unknown variant.
ChildFailed ==
    \/ child_job.timed_out
    \/ child_job.returncode # 0
    \/ child_job.document \in {"missing", "unparsable"}
    \/ child_job.document \notin CreteVariants

\* The directory the cell's run writes to.
OutputDirectory == IF output_directory = "tmp" THEN tmp[cell] ELSE stored[cell]

C21_State ==
    (b_pc = "clean" /\ ChildFailed) =>
        /\ run_result.variant = "unknown_error"
        /\ run_result.cpv_name = DetectionFiles[cell]
        /\ run_error # "none"
        /\ message # ""
        /\ result = run_result
        /\ OutputDirectory = DirectoryOf(run_result)

C21_Step ==
    /\ b_pc = "run" => b_pc' = "clean"
    /\ (b_pc = "retain" /\ ~Retention) =>
          /\ benchmark_results' = Append(benchmark_results, run_result)
          /\ cell' = cell + 1 /\ b_pc' = "cell"
    /\ b_pc = "append" =>
          /\ benchmark_results' = Append(benchmark_results, result)
          /\ result \in {run_result, prev_result}
          /\ cell' = cell + 1 /\ b_pc' = "cell"

\* C21: when the child job timed out, exited with a non-zero code, left no
\* parsable document or reported an unknown variant, the result of the
\* cell's run has variant unknown_error and a non-empty message and is
\* written to the run's output directory; the run always comes back to the
\* orchestrator, which appends one result for the cell (the run's, or under
\* retention the stored one) and goes on to the next cell.
C21_ChildFailureIsUnknownError == []C21_State /\ [][C21_Step]_vars

\* Cell 1 timed out in sweep 1; its result is in the list and cell 2 runs.
C21_Witness ==
    /\ sweep = 1 /\ cell = 2 /\ b_pc = "run"
    /\ child_job.timed_out
    /\ run_error = "TimeoutExpired"
    /\ message = "Command timed out after N seconds"
    /\ benchmark_results =
           <<[cpv_name |-> "cpv-1", variant |-> "unknown_error", sweep |-> 1]>>

C23_State ==
    (b_pc = "idle" /\ sweep > 0) =>
        /\ report # None
        /\ Len(report.value) >= Len(benchmark_results)
        /\ SubSeq(report.value,
                  Len(report.value) - Len(benchmark_results) + 1,
                  Len(report.value)) = benchmark_results

C23_Step ==
    /\ (b_pc = "cell" /\ cell = Len(DetectionFiles) + 1) =>
          report' = IF report = None
                    THEN Some(benchmark_results)
                    ELSE Some(report.value \o benchmark_results)
    /\ report' # report => (b_pc = "cell" /\ cell = Len(DetectionFiles) + 1)

\* C23: the step that ends a sweep writes the sweep's results as a new
\* report when there is no report file, and otherwise leaves the file with
\* its old rows followed by the sweep's results; no other step of a sweep
\* changes the report, so after every sweep the report ends with that
\* sweep's results.
C23_ReportAccumulates == []C23_State /\ [][C23_Step]_vars

\* After the second sweep the report holds the rows of both.
C23_Witness ==
    /\ b_pc = "idle" /\ sweep = 2
    /\ Len(report.value) = 4
    /\ report.value[1].sweep = 1 /\ report.value[2].sweep = 1
    /\ report.value[1].variant = "wrong"
    /\ SubSeq(report.value, 3, 4) = benchmark_results
    /\ benchmark_results[1].sweep = 2
    /\ benchmark_results[1].variant = "sound"

\* C24: once a report file exists it keeps existing, and every row in it
\* stays as it is: a step only adds rows after the ones already there.
C24_ReportIsAppendOnly ==
    [][report # None =>
          /\ report' # None
          /\ Len(report'.value) >= Len(report.value)
          /\ \A k \in DOMAIN report.value : report'.value[k] = report.value[k]]_vars

C26_Step ==
    /\ ~no_cache =>
          /\ task_cache # "absent" => task_cache' # "absent"
          /\ task_cache = "built" => task_cache' = "built"
    /\ no_cache =>
          /\ (b_pc = "cell" /\ b_pc' = "run") => task_cache' = "empty"
          /\ b_pc = "clean" => task_cache' = "absent"
    /\ (task_cache = "built" /\ task_cache' # "built") =>
          /\ no_cache
          /\ b_pc \in {"cell", "clean"}

C26_WitnessNoCache ==
    /\ no_cache
    /\ b_pc = "retain"
    /\ child_runs = 1
    /\ task_cache = "absent"

\* ---------------------------------------------------------------------
\* The repair loop with an abort from outside between two attempts.
\* ---------------------------------------------------------------------

\* act is interrupted at the head of its loop, after at least one attempt:
\* the interruption leaves act as an exception (the finally clause of
\* _iterate_with_output_directory runs, nothing is yielded).
Abort ==
    /\ pc = "loop"
    /\ i >= 1
    /\ exception' = "aborted"
    /\ pc' = "raised"
    /\ UNCHANGED <<max_iterations, i, failed_patches, actions, prompt, diff,
                   action, worktree, coder_diff, debug_files, gen_calls,
                   eval_calls, error_logs, yielded, task_outcome, spent_usd>>

NextAbort ==
    \/ Next
    \/ Abort /\ UNCHANGED <<sel_vars, trk_vars, usage_vars, bench_vars, ext_vars>>

SpecAbort == Init /\ [][NextAbort]_vars

\* C28: a Task aborted between two attempts reports the best outcome of the
\* attempts it completed.
C28_AbortReportsBestSoFar ==
    (/\ pc = "done"
     /\ exception = "aborted"
     /\ \A k \in DOMAIN actions : actions[k].variant \in Ordered) =>
        task_outcome = <<choose_best_action(actions)>>

\* C29: a generation call starts only while the Task's cumulative cost is
\* below the ceiling.
C29_NoCallAtCeiling ==
    [][gen_calls' = gen_calls + 1 => spent_usd < max_budget_usd]_vars

\* ---------------------------------------------------------------------
\* A started command and its descendants: run_command and
\* kill_process_tree (scripts/eval/run_tests.py), and the child job of
\* _run_crete_app under subprocess.run(timeout=...).
\* ---------------------------------------------------------------------

\* Everything but the process, pool and shared-checkout variables is idle.
IdleMain ==
    /\ IdleLoop /\ InitSel /\ IdleTracker /\ IdleUsage /\ IdleBench
    /\ IdleUnits

main_vars ==
    <<loop_vars, sel_vars, trk_vars, usage_vars, bench_vars, unit_vars>>

\* The members of a set of pids in ascending order.
RECURSIVE Ascending(_)
Ascending(S) ==
    IF S = {} THEN <<>>
    ELSE LET m == CHOOSE x \in S : \A y \in S : x <= y
         IN  <<m>> \o Ascending(S \ {m})

\* The running processes whose chain of parents leads to p.
RECURSIVE Below(_, _, _)
Below(p, running, parent) ==
    LET direct == {c \in running : parent[c] = p}
    IN  direct \cup UNION {Below(c, running \ direct, parent) : c \in direct}

\* psutil: Process(pid).children(recursive=True), parents before children.
ChildrenRecursive(pid) == Ascending(Below(pid, alive, ppid))

\* A process ends: it stops running and its children are re-parented.
Ended(p) ==
    /\ alive' = alive \ {p}
    /\ ppid' = [c \in Pids |-> IF ppid[c] = p THEN 0 ELSE ppid[c]]

\* A running process starts another one.
Spawn ==
    /\ n_spawned < MaxProcs
    /\ \E q \in alive :
          /\ alive' = alive \cup {n_spawned + 1}
          /\ ppid' = [ppid EXCEPT ![n_spawned + 1] = q]
    /\ n_spawned' = n_spawned + 1
    /\ UNCHANGED <<p_pc, children>>

\* A running process exits on its own (for the command itself also: in
\* response to SIGINT); until it is waited for, its pid stays.
Exit ==
    /\ \E p \in alive : Ended(p)
    /\ UNCHANGED <<p_pc, children, n_spawned>>

\* run_command, lines 44-54: Popen starts the command.
Popen ==
    /\ p_pc = "start"
    /\ alive' = {1}
    /\ n_spawned' = 1
    /\ p_pc' = "communicate"
    /\ UNCHANGED <<ppid, children>>

\* run_command, lines 59-67: the command has ended within the timeout;
\* its output is returned or, for a non-zero code, raised.
CommunicateReturns ==
    /\ p_pc = "communicate"
    /\ 1 \notin alive
    /\ p_pc' = "returned"
    /\ UNCHANGED <<alive, ppid, children, n_spawned>>

\* run_command, lines 69-71: the timeout expires; SIGINT goes to the
\* command's pid, then five seconds pass.
TimeoutExpired ==
    /\ p_pc = "communicate"
    /\ p_pc' = "enumerate"
    /\ UNCHANGED <<alive, ppid, children, n_spawned>>

\* kill_process_tree, lines 19-24: the pid is still there (the command is
\* not waited for yet); its descendants of this moment are listed.
EnumerateChildren ==
    /\ p_pc = "enumerate"
    /\ children' = ChildrenRecursive(1)
    /\ p_pc' = "kill"
    /\ UNCHANGED <<alive, ppid, n_spawned>>

\* kill_process_tree, lines 25-29: the listed children are killed, last
\* first; one that is gone is passed over.
KillChild ==
    /\ p_pc = "kill"
    /\ children # <<>>
    /\ Ended(children[Len(children)])
    /\ children' = SubSeq(children, 1, Len(children) - 1)
    /\ UNCHANGED <<p_pc, n_spawned>>

\* kill_process_tree, lines 31-34: the command itself is killed.
KillProcess ==
    /\ p_pc = "kill"
    /\ children = <<>>
    /\ Ended(1)
    /\ p_pc' = "raise"
    /\ UNCHANGED <<children, n_spawned>>

\* run_command, lines 73-75: the output is collected and the error raised.
RaiseTimeout ==
    /\ p_pc = "raise"
    /\ p_pc' = "raised"
    /\ UNCHANGED <<alive, ppid, children, n_spawned>>

InitRunCommand ==
    /\ p_pc = "start"
    /\ alive = {}
    /\ ppid = [p \in Pids |-> 0]
    /\ children = <<>>
    /\ n_spawned = 0
    /\ IdleMain /\ IdlePool /\ IdleConc

NextRunCommand ==
    \/ Popen /\ UNCHANGED <<main_vars, pool_vars, conc_vars>>
    \/ Spawn /\ UNCHANGED <<main_vars, pool_vars, conc_vars>>
    \/ Exit /\ UNCHANGED <<main_vars, pool_vars, conc_vars>>
    \/ CommunicateReturns /\ UNCHANGED <<main_vars, pool_vars, conc_vars>>
    \/ TimeoutExpired /\ UNCHANGED <<main_vars, pool_vars, conc_vars>>
    \/ EnumerateChildren /\ UNCHANGED <<main_vars, pool_vars, conc_vars>>
    \/ KillChild /\ UNCHANGED <<main_vars, pool_vars, conc_vars>>
    \/ KillProcess /\ UNCHANGED <<main_vars, pool_vars, conc_vars>>
    \/ RaiseTimeout /\ UNCHANGED <<main_vars, pool_vars, conc_vars>>

SpecRunCommand == InitRunCommand /\ [][NextRunCommand]_vars

\* _run_crete_app, lines 282-293: subprocess.run starts the child job.
ChildStarts ==
    /\ p_pc = "child_start"
    /\ alive' = {1}
    /\ n_spawned' = 1
    /\ p_pc' = "child_wait"
    /\ UNCHANGED <<ppid, children>>

\* subprocess.run: the child job has ended within the timeout.
ChildEnds ==
    /\ p_pc = "child_wait"
    /\ 1 \notin alive
    /\ p_pc' = "child_ended"
    /\ UNCHANGED <<alive, ppid, children, n_spawned>>

\* subprocess.run(timeout=...): on the timeout it kills the child job's
\* process.
ChildTimeout ==
    /\ p_pc = "child_wait"
    /\ 1 \in alive
    /\ Ended(1)
    /\ p_pc' = "child_killed"
    /\ UNCHANGED <<children, n_spawned>>

\* subprocess.run: it waits for the killed process and raises TimeoutExpired.
ChildWaited ==
    /\ p_pc = "child_killed"
    /\ p_pc' = "child_timed_out"
    /\ UNCHANGED <<alive, ppid, children, n_spawned>>

\* _run_crete_app, lines 317-319: the traceback is printed, the exception
\* raised again.
CreteAppRaises ==
    /\ p_pc = "child_timed_out"
    /\ p_pc' = "crete_app_raised"
    /\ UNCHANGED <<alive, ppid, children, n_spawned>>

\* _run_single_benchmark, lines 393-402: the exception is recorded as an
\* unknown_error result.
RecordFailure ==
    /\ p_pc = "crete_app_raised"
    /\ p_pc' = "recorded"
    /\ UNCHANGED <<alive, ppid, children, n_spawned>>

InitChild ==
    /\ p_pc = "child_start"
    /\ alive = {}
    /\ ppid = [p \in Pids |-> 0]
    /\ children = <<>>
    /\ n_spawned = 0
    /\ IdleMain /\ IdlePool /\ IdleConc

NextChild ==
    \/ ChildStarts /\ UNCHANGED <<main_vars, pool_vars, conc_vars>>
    \/ Spawn /\ UNCHANGED <<main_vars, pool_vars, conc_vars>>
    \/ Exit /\ UNCHANGED <<main_vars, pool_vars, conc_vars>>
    \/ ChildEnds /\ UNCHANGED <<main_vars, pool_vars, conc_vars>>
    \/ ChildTimeout /\ UNCHANGED <<main_vars, pool_vars, conc_vars>>
    \/ ChildWaited /\ UNCHANGED <<main_vars, pool_vars, conc_vars>>
    \/ CreteAppRaises /\ UNCHANGED <<main_vars, pool_vars, conc_vars>>
    \/ RecordFailure /\ UNCHANGED <<main_vars, pool_vars, conc_vars>>

SpecChild == InitChild /\ [][NextChild]_vars

\* C22: when the failure of a timed-out child job is recorded, neither the
\* child nor any process it spawned, directly or not, is running.
C22_TreeDeadWhenRecorded == p_pc = "recorded" => alive = {}

\* C30: once run_command has raised after its timeout, no process of the
\* started command's tree is running.
C30_NoDescendantLeft == p_pc = "raised" => alive = {}

(***************************************************************************)
(* Environment pool: init_environment_pool and construct_challenge_mode   *)
(* (scripts/eval/functions.py).  OssFuzzEnvironmentPool itself is not     *)
(* part of the sources; its cache is modelled from section 4.4 of the     *)
(* specification.                                                          *)
(***************************************************************************)

Projects == {"p1", "p2"}

\* Checkouts of the challenge project: what git rev-parse answers for HEAD
\* and for HEAD~.
Repositories ==
    {[HEAD |-> "c2", HEAD_parent |-> "c1"],
     [HEAD |-> "c3", HEAD_parent |-> "c2"]}

ModeNames == {"full", "delta"}

\* The environment types init_environment_pool creates, in its order.
EnvironmentTypes == <<"CLEAN", "DEBUG", "CALL_TRACE">>

construct_challenge_mode(challenge_project_directory, mode) ==
    IF mode = "full"
    THEN [type |-> "full",
          base_ref |-> challenge_project_directory.HEAD,
          delta_ref |-> "none"]
    ELSE [type |-> "delta",
          base_ref |-> challenge_project_directory.HEAD_parent,
          delta_ref |-> challenge_project_directory.HEAD]

challenge_project_detection_without_mode_mutant(project_name, challenge_mode) ==
    [project_name |-> project_name, mode |-> NoMode]

\* What the pool is constructed from.
challenge_project_detection(project_name, challenge_mode) ==
    [project_name |-> project_name, mode |-> challenge_mode]

\* The cache key of an environment: project identity, the base and delta
\* references of the challenge mode, and the environment type.
KeyOf(pool, type) ==
    <<pool.project_name, pool.mode.base_ref, pool.mode.delta_ref, type>>

CacheHit(key) == \E e \in pool_cache : e.key = key

Cached(key) == CHOOSE e \in pool_cache : e.key = key

\* The request an environment is created for.
Request(type) ==
    [project_name |-> pl_args.project_name,
     mode |-> pl_args.challenge_mode,
     type |-> type]

InitEnvironmentPool ==
    /\ pl_pc \in {"off", "returned"}
    /\ Len(handles) < MaxPoolInits * Len(EnvironmentTypes)
    /\ \E project_name \in Projects, directory \in Repositories,
          mode \in ModeNames :
          LET challenge_mode == construct_challenge_mode(directory, mode) IN
          /\ pl_args' = [project_name |-> project_name,
                         challenge_mode |-> challenge_mode]
          /\ pl_pool' = challenge_project_detection(project_name, challenge_mode)
    /\ pl_next' = 1
    /\ pl_pc' = "creating"
    /\ UNCHANGED <<pool_cache, builds, handles>>

\* _create_environment_by_type: a cache hit returns the stored artifact, a
\* miss builds the environment and stores it under the key.
CreateEnvironmentByType ==
    /\ pl_pc = "creating"
    /\ pl_next \in DOMAIN EnvironmentTypes
    /\ LET type == EnvironmentTypes[pl_next]
           key == KeyOf(pl_pool, type)
       IN  IF CacheHit(key)
           THEN /\ handles' = Append(handles,
                      [request |-> Request(type),
                       artifact |-> Cached(key).artifact])
                /\ UNCHANGED <<pool_cache, builds>>
           ELSE /\ builds' = Append(builds, Request(type))
                /\ pool_cache' = pool_cache \cup
                      {[key |-> key, artifact |-> Len(builds) + 1]}
                /\ handles' = Append(handles,
                      [request |-> Request(type),
                       artifact |-> Len(builds) + 1])
    /\ pl_next' = pl_next + 1
    /\ UNCHANGED <<pl_pc, pl_args, pl_pool>>

ReturnEnvironmentPool ==
    /\ pl_pc = "creating"
    /\ pl_next \notin DOMAIN EnvironmentTypes
    /\ pl_pc' = "returned"
    /\ UNCHANGED <<pl_args, pl_pool, pl_next, pool_cache, builds, handles>>

InitPool ==
    /\ IdleMain /\ IdleProc /\ IdlePool /\ IdleConc

NextPool ==
    \/ InitEnvironmentPool /\ UNCHANGED <<main_vars, proc_vars, conc_vars>>
    \/ CreateEnvironmentByType /\ UNCHANGED <<main_vars, proc_vars, conc_vars>>
    \/ ReturnEnvironmentPool /\ UNCHANGED <<main_vars, proc_vars, conc_vars>>

SpecPool == InitPool /\ [][NextPool]_vars

\* C25: two environments created for the same project, challenge-mode
\* references and type are the same artifact, and the environment is built
\* for the first of them only; environments that differ in the type or in a
\* git reference are never the same artifact.
C25_OneArtifactPerKey ==
    /\ \A x, y \in DOMAIN handles :
          (handles[x].request = handles[y].request)
              <=> (handles[x].artifact = handles[y].artifact)
    /\ \A x, y \in DOMAIN builds : builds[x] = builds[y] => x = y
    /\ \A x \in DOMAIN handles :
          \E z \in DOMAIN builds :
              builds[z] = handles[x].request /\ handles[x].artifact = z

\* A second pool for the same project and references got the artifacts of
\* the first without a build, next to a pool for other references.
C25_Witness ==
    /\ pl_pc = "returned"
    /\ Len(builds) < Len(handles)
    /\ \E x, y \in DOMAIN handles :
          /\ x < y
          /\ handles[x].request = handles[y].request
          /\ handles[x].artifact = handles[y].artifact

\* Two pools on the same base reference, one full and one delta, and two
\* types of one pool, hold different artifacts.
C25_WitnessDistinct ==
    /\ pl_pc = "returned"
    /\ \E x, y \in DOMAIN handles :
          /\ handles[x].request.mode.base_ref = handles[y].request.mode.base_ref
          /\ handles[x].request.mode.delta_ref # handles[y].request.mode.delta_ref
          /\ handles[x].request.type = handles[y].request.type
          /\ handles[x].artifact # handles[y].artifact

(***************************************************************************)
(* Two Tasks on one source checkout: CCCoder.run and _run_agent_async     *)
(* (crete/framework/coder/services/cc/__init__.py), each Task on its own  *)
(* worker, both with the same pool.source_directory.                      *)
(***************************************************************************)

\* The files of the checkout an agent may edit.
SourceFiles == {"f1", "f2"}

\* The Task is between its first restore and its return.
InsideRun(t) == t_pc[t] \in {"querying", "queried", "diffed"}

\* run: git restore --source=HEAD :/ before the agent starts.
CoderRestoreBefore(t) ==
    /\ t_pc[t] = "off"
    /\ shared_worktree' = {}
    /\ t_pc' = [t_pc EXCEPT ![t] = "querying"]
    /\ UNCHANGED t_diff

\* query: the agent, with cwd = source_dir, edits a file of the checkout.
CoderEdit(t) ==
    /\ t_pc[t] = "querying"
    /\ \E f \in SourceFiles : shared_worktree' = shared_worktree \cup {<<t, f>>}
    /\ UNCHANGED <<t_pc, t_diff>>

CoderQueryEnds(t) ==
    /\ t_pc[t] = "querying"
    /\ t_pc' = [t_pc EXCEPT ![t] = "queried"]
    /\ UNCHANGED <<shared_worktree, t_diff>>

\* query raises: _run_agent_async returns None at once, with neither the
\* diff nor the second restore.
CoderQueryRaises(t) ==
    /\ t_pc[t] = "querying"
    /\ t_pc' = [t_pc EXCEPT ![t] = "returned"]
    /\ t_diff' = [t_diff EXCEPT ![t] = NoCapture]
    /\ UNCHANGED shared_worktree

\* _get_git_diff: the diff of the whole working tree, or None when git fails.
CoderGetGitDiff(t) ==
    /\ t_pc[t] = "queried"
    /\ \/ t_diff' = [t_diff EXCEPT ![t] =
                        [is_none |-> FALSE, edits |-> shared_worktree]]
       \/ t_diff' = [t_diff EXCEPT ![t] = NoCapture]
    /\ t_pc' = [t_pc EXCEPT ![t] = "diffed"]
    /\ UNCHANGED shared_worktree

\* _run_agent_async: git restore --source=HEAD :/ after the diff; run returns.
CoderRestoreAfter(t) ==
    /\ t_pc[t] = "diffed"
    /\ shared_worktree' = {}
    /\ t_pc' = [t_pc EXCEPT ![t] = "returned"]
    /\ UNCHANGED t_diff

InitCoders ==
    /\ IdleMain /\ IdleProc /\ IdlePool /\ IdleConc

NextCoders ==
    \/ \E t \in Tasks : CoderRestoreBefore(t) /\ UNCHANGED <<main_vars, proc_vars, pool_vars>>
    \/ \E t \in Tasks : CoderEdit(t) /\ UNCHANGED <<main_vars, proc_vars, pool_vars>>
    \/ \E t \in Tasks : CoderQueryEnds(t) /\ UNCHANGED <<main_vars, proc_vars, pool_vars>>
    \/ \E t \in Tasks : CoderQueryRaises(t) /\ UNCHANGED <<main_vars, proc_vars, pool_vars>>
    \/ \E t \in Tasks : CoderGetGitDiff(t) /\ UNCHANGED <<main_vars, proc_vars, pool_vars>>
    \/ \E t \in Tasks : CoderRestoreAfter(t) /\ UNCHANGED <<main_vars, proc_vars, pool_vars>>

SpecCoders == InitCoders /\ [][NextCoders]_vars

\* A restore by one Task leaves the edits of a Task that is still between
\* its own restores in place.
RestoreKeepsOthers ==
    \A t \in Tasks :
        (InsideRun(t) /\ t_pc'[t] = t_pc[t]) =>
            \A e \in shared_worktree : e[1] = t => e \in shared_worktree'

\* C27: two Tasks on the same checkout are serialized: they are never both
\* between the first restore and the return of run, a restore by one never
\* discards edits of the other that is still in progress, and a captured
\* diff holds only edits of the Task that captured it.
C27_SerializedOnSharedCheckout ==
    /\ [](\A t, u \in Tasks : (InsideRun(t) /\ InsideRun(u)) => t = u)
    /\ [](\A t \in Tasks : \A e \in t_diff[t].edits : e[1] = t)
    /\ [][RestoreKeepsOthers]_vars

-----------------------------------------------------------------------------
(* The end of the loop of act *)

\* The outcomes that are none of Vulnerable, Compilable, Uncompilable, Wrong.
EndsLoop(v) == v \notin {"vulnerable", "compilable", "uncompilable", "wrong"}

C31_Step ==
    (pc = "record" /\ EndsLoop(action.variant))
    => /\ pc' = "choose"
       /\ failed_patches' = failed_patches
       /\ i' = i

C31_Ended ==
    (actions # <<>> /\ EndsLoop(actions[Len(actions)].variant))
    => /\ pc \in {"choose", "yielded", "done"}
       /\ gen_calls = Len(actions)
       /\ i = Len(actions)

\* C31: an attempt whose outcome is none of Vulnerable, Compilable,
\* Uncompilable and Wrong ends the loop at once: no further generator call
\* is made and its diff is not added to the feedback, even when attempts
\* remain.
C31_OtherOutcomeEndsLoop == [](C31_Ended) /\ [][C31_Step]_vars

\* The second of three attempts failed the internal tests, and the Task ended
\* with the feedback of the first attempt only.
C31_Witness ==
    /\ pc = "done"
    /\ max_iterations = 3
    /\ Variants(actions) = <<"wrong", "internal_tests_failure">>
    /\ gen_calls = 2
    /\ failed_patches # <<>>
    /\ failed_patches = AppendFailedPatch(<<>>, actions[1].diff)

\* The evaluator answered with an outcome outside the ordering in the first
\* attempt of several.
C31_WitnessUnknown ==
    /\ pc = "done"
    /\ max_iterations > 1
    /\ Variants(actions) = <<"unknown_error">>
    /\ gen_calls = 1
    /\ failed_patches = <<>>

\* Every max_iterations a CCAgent can be constructed with, zero included.
InitAnyMax ==
    InitLoop(0..MaxIterations) /\ InitSel /\ IdleTracker /\ IdleUsage
        /\ IdleBench
        /\ IdleExt

SpecAnyMax == InitAnyMax /\ [][Next]_vars

\* C32: when act makes its final selection, at least one attempt outcome has
\* been recorded, for every max_iterations >= 0.
C32_SelectionNeverEmpty == pc = "choose" => actions # <<>>

\* C33: whenever CCCoder.run returns to act, with a diff or with None, the
\* checkout is in the clean state.
C33_RestoredWhenRunReturns ==
    [][(pc # "classify" /\ pc' = "classify") => worktree' = <<>>]_vars

-----------------------------------------------------------------------------
(* The tracker in non-blocking mode *)

C35_State ==
    ~block_llm
    => /\ underlying_calls = n_calls
       /\ last_call.status # "blocked"
       /\ BudgetError \notin errors

C35_Step ==
    (~block_llm /\ n_calls' = n_calls + 1)
    => /\ underlying_calls' = underlying_calls + 1
       /\ last_call'.status = "returned"
          => /\ total_usage' = LlmUsage_iadd(total_usage, last_call'.delta)
             /\ last_call'.response \in Responses

\* C35: with block_llm false the tracker refuses no call: every call reaches
\* the underlying completion function, also while is_exhausted() is true, and
\* the usage of a returned response is added to the cumulative total.
C35_NonBlockingNeverRefuses == [](C35_State) /\ [][C35_Step]_vars

\* A call made after the ceiling was reached has returned and has been
\* added to the total.
C35_Witness ==
    /\ ~block_llm
    /\ max_cost = 2
    /\ Len(recorded) >= 2
    /\ recorded[1].total_cost >= max_cost
    /\ last_call.status = "returned"
    /\ last_call.delta.total_cost > 0
    /\ total_usage.total_cost > recorded[1].total_cost

-----------------------------------------------------------------------------
(* LlmCostTracker.start and stop: the interceptor on litellm.completion *)

\* LlmCostTracker.start
start(t) ==
    /\ n_starts < MaxStarts
    /\ _original_completion' = [_original_completion EXCEPT ![t] = completion]
    /\ completion' = t
    /\ open_starts' = [open_starts EXCEPT ![t] = @ + 1]
    /\ n_starts' = n_starts + 1
    /\ UNCHANGED hook_call

\* LlmCostTracker.stop, of a tracker that was started.
stop(t) ==
    /\ open_starts[t] > 0
    /\ completion' = _original_completion[t]
    /\ open_starts' = [open_starts EXCEPT ![t] = @ - 1]
    /\ UNCHANGED <<_original_completion, n_starts, hook_call>>

RECURSIVE Forwarded(_, _)
\* Where a call of the function f ends: a tracker's _tracking_completion
\* calls its _original_completion; depth counts the frames still allowed.
Forwarded(f, depth) ==
    IF f = "litellm" THEN "litellm"
    ELSE IF depth = 0 THEN "RecursionError"
    ELSE Forwarded(_original_completion[f], depth - 1)

\* A caller calls litellm.completion(...).
CallCompletion ==
    /\ hook_call' = Forwarded(completion, Cardinality(Trackers))
    /\ UNCHANGED <<completion, _original_completion, open_starts, n_starts>>

InitHooks ==
    /\ IdleLoop /\ InitSel /\ IdleTracker /\ IdleUsage /\ IdleBench
    /\ IdleProc /\ IdlePool /\ IdleConc /\ IdleDocument /\ IdleSingle
    /\ IdleChange
    /\ IdleHooks

NextHooks ==
    \/ \E t \in Trackers : start(t) /\ UNCHANGED <<loop_vars, sel_vars, trk_vars, usage_vars, bench_vars, proc_vars, pool_vars, conc_vars, doc_vars, single_vars, change_vars>>
    \/ \E t \in Trackers : stop(t) /\ UNCHANGED <<loop_vars, sel_vars, trk_vars, usage_vars, bench_vars, proc_vars, pool_vars, conc_vars, doc_vars, single_vars, change_vars>>
    \/ CallCompletion /\ UNCHANGED <<loop_vars, sel_vars, trk_vars, usage_vars, bench_vars, proc_vars, pool_vars, conc_vars, doc_vars, single_vars, change_vars>>

SpecHooks == InitHooks /\ [][NextHooks]_vars

\* C34: once every start() has been matched by a stop() of the same tracker,
\* litellm.completion is the function of litellm again: no tracker is still
\* installed and a call of it does not end in a tracker calling itself.
C34_StopRestoresCompletion ==
    (\A t \in Trackers : open_starts[t] = 0)
    => /\ completion = "litellm"
       /\ Forwarded(completion, Cardinality(Trackers)) = "litellm"

-----------------------------------------------------------------------------
(* One cell's output directory and the document of its child job:          *)
(* run, lines 207-220, and _run_crete_app of scripts/eval/afc_benchmark.py *)

\* What an output directory may hold when run comes to it: nothing, or what
\* an earlier invocation left there.
DirectoriesBefore ==
    {[exists |-> FALSE, document |-> "missing", written_in |-> 0]}
    \cup [exists : {TRUE}, document : {"missing", "sound", "wrong"},
          written_in : {0}]

\* run, lines 207-209: rmtree if the directory exists, then mkdir.
Emptied_only_mkdir_mutant(directory) == [directory EXCEPT !.exists = TRUE]

Emptied(directory) == [exists |-> TRUE, document |-> "missing", written_in |-> 0]

\* run, lines 207-211: the directory is emptied and the child job started.
PrepareOutput ==
    /\ d_pc = "idle"
    /\ d_run < MaxRuns
    /\ d_run' = d_run + 1
    /\ d_stale' = (d_dir.document # "missing")
    /\ d_dir' = Emptied(d_dir)
    /\ d_child' = "running"
    /\ d_read' = NothingRead
    /\ d_result' = "none"
    /\ d_pc' = "child"

\* The child job writes _crete_return.json into its output directory.
ChildWrites ==
    /\ d_pc = "child"
    /\ \E document \in Documents \ {"missing"} :
           d_dir' = [exists |-> TRUE, document |-> document,
                     written_in |-> d_run]
    /\ UNCHANGED <<d_pc, d_run, d_stale, d_child, d_read, d_result>>

\* subprocess.run(check=True, timeout=...): it returns when the child exits
\* with code 0 and raises otherwise.
ChildExits ==
    /\ d_pc = "child"
    /\ \E how \in {"exited_0", "exited_1", "timed_out"} :
           /\ d_child' = how
           /\ d_pc' = IF how = "exited_0" THEN "read" ELSE "raised"
    /\ UNCHANGED <<d_dir, d_run, d_stale, d_read, d_result>>

\* _run_crete_app, lines 297-316: the document is read and its variant tested.
ReadDocument ==
    /\ d_pc = "read"
    /\ d_read' = [document |-> d_dir.document, written_in |-> d_dir.written_in]
    /\ d_pc' = IF _run_crete_app([timed_out |-> FALSE, returncode |-> 0,
                                  document |-> d_dir.document]).raised = "none"
               THEN "returned" ELSE "raised"
    /\ UNCHANGED <<d_dir, d_run, d_stale, d_child, d_result>>

\* _run_single_benchmark and run, line 220: the result of the cell; the
\* output directory stays as the child left it.
WriteResult ==
    /\ d_pc \in {"returned", "raised"}
    /\ d_result' = IF d_pc = "returned" THEN d_read.document
                   ELSE "unknown_error"
    /\ d_pc' = "idle"
    /\ UNCHANGED <<d_dir, d_run, d_stale, d_child, d_read>>

InitDocument ==
    /\ IdleLoop /\ InitSel /\ IdleTracker /\ IdleUsage /\ IdleBench
    /\ IdleProc /\ IdlePool /\ IdleConc /\ IdleHooks /\ IdleSingle
    /\ IdleChange
    /\ d_pc = "idle"
    /\ d_dir \in DirectoriesBefore
    /\ d_run = 0
    /\ d_stale = FALSE
    /\ d_child = "none"
    /\ d_read = NothingRead
    /\ d_result = "none"

NextDocument ==
    \/ PrepareOutput /\ UNCHANGED <<loop_vars, sel_vars, trk_vars, usage_vars, bench_vars, proc_vars, pool_vars, conc_vars, hook_vars, single_vars, change_vars>>
    \/ ChildWrites /\ UNCHANGED <<loop_vars, sel_vars, trk_vars, usage_vars, bench_vars, proc_vars, pool_vars, conc_vars, hook_vars, single_vars, change_vars>>
    \/ ChildExits /\ UNCHANGED <<loop_vars, sel_vars, trk_vars, usage_vars, bench_vars, proc_vars, pool_vars, conc_vars, hook_vars, single_vars, change_vars>>
    \/ ReadDocument /\ UNCHANGED <<loop_vars, sel_vars, trk_vars, usage_vars, bench_vars, proc_vars, pool_vars, conc_vars, hook_vars, single_vars, change_vars>>
    \/ WriteResult /\ UNCHANGED <<loop_vars, sel_vars, trk_vars, usage_vars, bench_vars, proc_vars, pool_vars, conc_vars, hook_vars, single_vars, change_vars>>

SpecDocument == InitDocument /\ [][NextDocument]_vars

\* A document was parsed in this run.
DocumentRead == d_read.document \notin {"none", "missing"}

C36_State ==
    /\ (d_pc = "child" /\ d_dir.document # "missing")
       => d_dir.written_in = d_run
    /\ DocumentRead => (d_read.written_in = d_run /\ d_child = "exited_0")
    /\ d_result \notin {"none", "unknown_error"}
       => (d_read.written_in = d_run /\ d_child = "exited_0")

C36_Step ==
    d_read' # d_read /\ d_read' # NothingRead => d_child = "exited_0"

\* C36: the document parsed for a cell was written by the child job of the
\* current run: the output directory holds no document when the child
\* starts, and the document is read only after the child exited with code 0.
C36_DocumentIsOfThisRun == [](C36_State) /\ [][C36_Step]_vars

\* The directory held a document of an earlier run, the child of this run
\* exited with code 0 without writing one, and none was found.
C36_Witness ==
    /\ d_stale
    /\ d_child = "exited_0"
    /\ d_pc = "raised"
    /\ d_read.document = "missing"

\* A child wrote a document and then timed out: the document was not read.
C36_WitnessTimeout ==
    /\ d_child = "timed_out"
    /\ d_dir.document = "sound"
    /\ d_dir.written_in = d_run
    /\ d_result = "unknown_error"
    /\ d_read = NothingRead

-----------------------------------------------------------------------------
(* _run_single_benchmark on its own, for every input                       *)

\* The cost a child job reports in the llm_usage of its result.
ChildCosts == {0, 2}

InitSingle ==
    /\ IdleLoop /\ InitSel /\ IdleTracker /\ IdleUsage /\ IdleBench
    /\ IdleProc /\ IdlePool /\ IdleConc /\ IdleHooks /\ IdleDocument
    /\ IdleChange
    /\ sb_pc = "call"
    /\ sb_in \in [detection_file : {"cpv-1"} \cup SarifDetectionFiles,
                  job : ChildJobs, llm_usage : ChildCosts,
                  full : FullOutcomes, recheck : RecheckOutcomes]
    /\ sb_out = NoBenchmarkResult

RunSingle ==
    /\ sb_pc = "call"
    /\ sb_out' = _run_single_benchmark(sb_in.detection_file, sb_in.job,
                                       sb_in.llm_usage, sb_in.full,
                                       sb_in.recheck)
    /\ sb_pc' = "returned"
    /\ UNCHANGED sb_in

NextSingle ==
    RunSingle /\ UNCHANGED <<loop_vars, sel_vars, trk_vars, usage_vars, bench_vars, proc_vars, pool_vars, conc_vars, hook_vars, doc_vars, change_vars>>

SpecSingle == InitSingle /\ [][NextSingle]_vars

\* The child job exited with code 0 and left a document of this variant.
ChildReported(variant) ==
    /\ ~sb_in.job.timed_out
    /\ sb_in.job.returncode = 0
    /\ sb_in.job.document = variant

\* The detection is a sarif one whose full-mode detection file exists.
SarifWithFullFile ==
    sb_in.detection_file = "cpv-1-sarif" /\ sb_in.full # "no_file"

\* C37: the result is Sound only if the child job reported Sound, the
\* re-verification by the PatchChecker returned Sound and, for a sarif
\* detection with a full-mode detection file, the full-mode re-verification
\* returned Sound; whatever the re-verifications return, the llm_cost of the
\* result is the cost the child job reported.
C37_SoundOnlyIfReverified ==
    sb_pc = "returned"
    => /\ sb_out.variant = "sound"
          => /\ ChildReported("sound")
             /\ sb_in.recheck = "sound"
             /\ SarifWithFullFile => sb_in.full = "sound"
       /\ (\E v \in CreteVariants : ChildReported(v))
          => sb_out.llm_cost = sb_in.llm_usage

\* The child reported Sound at a cost and the PatchChecker disagreed.
C37_Witness ==
    /\ sb_pc = "returned"
    /\ ChildReported("sound")
    /\ sb_in.recheck = "wrong"
    /\ sb_in.llm_usage = 2
    /\ sb_out.variant = "wrong"
    /\ sb_out.llm_cost = 2

\* A sarif detection: the full-mode re-verification refused a Sound patch.
C37_WitnessSarif ==
    /\ sb_pc = "returned"
    /\ ChildReported("sound")
    /\ SarifWithFullFile
    /\ sb_in.full = "wrong"
    /\ sb_in.recheck = "sound"
    /\ sb_out.variant = "wrong"

\* Every re-verification agreed and the result is Sound.
C37_WitnessSound ==
    /\ sb_pc = "returned"
    /\ SarifWithFullFile
    /\ sb_out.variant = "sound"
    /\ sb_out.llm_cost = 2

-----------------------------------------------------------------------------
(* The stored directory while it is being replaced *)

\* C38: at every step of the retention of a cell that has a stored result,
\* the cell's stored directory holds a result, and one that is not worse
\* than the result stored before the run.
C38_StoredResultNeverLost ==
    (Retention /\ b_pc \in {"retain", "copy", "rm_output", "append"})
    => /\ stored[cell].exists
       /\ stored[cell].result # NoResult
       /\ BothOrdered(stored[cell].result, prev_result)
          => Rank[stored[cell].result.variant] >= Rank[prev_result.variant]

-----------------------------------------------------------------------------
(* change_variant on a whole file (scripts/eval/change_result.py)          *)

RECURSIVE variant_counts(_, _)
\* change_variant, lines 62-71: the [variant, count] pairs, in the order in
\* which the variants first occur in the rows (counts: the pairs so far).
variant_counts(rows, counts) ==
    IF rows = <<>> THEN counts
    ELSE LET variant == Head(rows).variant
             at == {k \in DOMAIN counts : counts[k][1] = variant}
         IN  IF at = {}
             THEN variant_counts(Tail(rows), Append(counts, <<variant, 1>>))
             ELSE variant_counts(
                      Tail(rows),
                      [k \in DOMAIN counts |->
                          IF k \in at THEN <<variant, counts[k][2] + 1>>
                          ELSE counts[k]])

\* change_variant: what it returns (or that it raises ValueError) and the
\* file afterwards.
change_variant_call(file, cpv_name, new_variant) ==
    IF new_variant \notin variant_values
    THEN [returned |-> "ValueError", file |-> file]
    ELSE IF file.kind # "object" \/ ~file.has_results
    THEN [returned |-> "False", file |-> file]
    ELSE IF FirstRow(file.results, cpv_name) = 0
    THEN [returned |-> "False", file |-> file]
    ELSE IF ~file.writable
    THEN [returned |-> "False", file |-> file]
    ELSE LET results == change_variant(file.results, cpv_name, new_variant)
         IN  [returned |-> "True",
              file |-> [file EXCEPT
                           !.results = results,
                           !.statistics =
                               IF file.has_statistics
                               THEN variant_counts(results, <<>>)
                               ELSE file.statistics]]

\* The rows of the files: results of two detections, from two sweeps.
ResultRows ==
    [cpv_name : {"cpv-1", "cpv-2"}, variant : {"sound", "wrong"},
     sweep : {1}]

RowLists == UNION {[1..n -> ResultRows] : n \in 0..MaxRows}

\* The files change_variant may be given: a JSON object with or without the
\* results and statistics fields, or a file that does not parse; the
\* statistics found in it may be out of date.
InputFiles ==
    [kind : {"object"}, has_results : {TRUE}, results : RowLists,
     has_statistics : BOOLEAN, statistics : {<<>>}, writable : BOOLEAN]
    \cup [kind : {"object", "unparsable"}, has_results : {FALSE},
          results : {<<>>}, has_statistics : BOOLEAN,
          statistics : {<<>>}, writable : {TRUE}]

InitChange ==
    /\ IdleLoop /\ InitSel /\ IdleTracker /\ IdleUsage /\ IdleBench
    /\ IdleProc /\ IdlePool /\ IdleConc /\ IdleHooks /\ IdleDocument
    /\ IdleSingle
    /\ cv_pc = "call"
    /\ cv_in \in [file : InputFiles, cpv_name : ChangeNames,
                  new_variant : ChangeVariants]
    /\ cv_out = [returned |-> "none", file |-> NoFile]

RunChange ==
    /\ cv_pc = "call"
    /\ cv_out' = change_variant_call(cv_in.file, cv_in.cpv_name,
                                     cv_in.new_variant)
    /\ cv_pc' = "returned"
    /\ UNCHANGED cv_in

NextChange ==
    RunChange /\ UNCHANGED <<loop_vars, sel_vars, trk_vars, usage_vars, bench_vars, proc_vars, pool_vars, conc_vars, hook_vars, doc_vars, single_vars>>

SpecChange == InitChange /\ [][NextChange]_vars

\* The variants the script allows.
AllowedVariants ==
    {"sound", "vulnerable", "compilable", "uncompilable", "wrong",
     "wrong_format", "internal_tests_failure", "unknown_error", "no_patch"}

\* The file given holds a result row of the given name.
RowFound ==
    /\ cv_in.file.kind = "object"
    /\ cv_in.file.has_results
    /\ \E x \in DOMAIN cv_in.file.results :
           cv_in.file.results[x].cpv_name = cv_in.cpv_name

\* C39: change_variant returns True exactly when a row of the given name was
\* found and the updated file was written; a new_variant outside the allowed
\* list raises ValueError, a file without results or without a matching row
\* returns False, and whenever it does not return True the file is unchanged.
C39_TrueIffFoundAndUpdated ==
    cv_pc = "returned"
    => /\ cv_in.new_variant \notin AllowedVariants
          <=> cv_out.returned = "ValueError"
       /\ cv_out.returned = "True"
          <=> /\ cv_in.new_variant \in AllowedVariants
              /\ RowFound
              /\ cv_in.file.writable
       /\ cv_out.returned = "True"
          => /\ cv_out.file # NoFile
             /\ \E x \in DOMAIN cv_out.file.results :
                    /\ cv_out.file.results[x].cpv_name = cv_in.cpv_name
                    /\ cv_out.file.results[x].variant = cv_in.new_variant
       /\ cv_out.returned # "True" => cv_out.file = cv_in.file
       /\ (cv_in.new_variant \in AllowedVariants /\ ~RowFound)
          => cv_out.returned = "False"

\* A row was found and the file rewritten.
C39_Witness ==
    /\ cv_pc = "returned"
    /\ cv_out.returned = "True"
    /\ cv_out.file # cv_in.file
    /\ Len(cv_in.file.results) = 2

\* A file with results, none of them of the given name.
C39_WitnessNotFound ==
    /\ cv_pc = "returned"
    /\ cv_in.new_variant \in AllowedVariants
    /\ cv_in.file.has_results
    /\ cv_in.file.results # <<>>
    /\ cv_out.returned = "False"
    /\ cv_in.file.writable

\* A variant outside the list, for a file that has a matching row.
C39_WitnessValueError ==
    /\ cv_pc = "returned"
    /\ RowFound
    /\ cv_out.returned = "ValueError"

RECURSIVE SumOfCounts(_)
SumOfCounts(counts) ==
    IF counts = <<>> THEN 0 ELSE Head(counts)[2] + SumOfCounts(Tail(counts))

\* The number of rows of a variant.
RowsOf(rows, variant) ==
    Cardinality({x \in DOMAIN rows : rows[x].variant = variant})

\* The index of the first row of the given name in the file given.
FirstMatch ==
    CHOOSE x \in DOMAIN cv_in.file.results :
        /\ cv_in.file.results[x].cpv_name = cv_in.cpv_name
        /\ \A y \in 1..(x - 1) :
               cv_in.file.results[y].cpv_name # cv_in.cpv_name

====
